---- MODULE Spec2Model ----
(***************************************************************************)
(* A model of the Leakomatic Home Assistant integration: the               *)
(* LeakomaticClient (authentication, session, device data cache, the       *)
(* WebSocket reconnect loop) and the config flow's user step.              *)
(*                                                                         *)
(* Every coroutine runs on one event loop; an action is the code between   *)
(* two suspension points of a coroutine, or a whole handler when the       *)
(* handler is awaited to its end by its caller.                            *)
(***************************************************************************)
EXTENDS Integers, Sequences, FiniteSets, TLC

VARIABLES
    \* ---- LeakomaticClient fields (leakomatic_client.py:54-66)
    auth_token,               \* self._auth_token
    xsrf_token,               \* self._xsrf_token
    cookies,                  \* self._cookies
    device_ids,               \* self._device_ids
    user_id,                  \* self._user_id
    error_code,               \* self._error_code
    ws_running,               \* self._ws_running
    ws_callbacks,             \* self._ws_callbacks
    device_data_cache,        \* self._device_data_cache
    device_data_cache_time,   \* self._device_data_cache_time
    \* ---- connect_to_websocket: its position and its locals
    pc,
    retry_count,
    retry_delay,
    actual_delay,
    \* ---- the retry parameters imported from const
    retry_cfg,
    \* ---- the environment
    now,                      \* datetime.now(), in minutes
    \* ---- observations
    last,                     \* what the last client operation did
    fetched,                  \* per device, its last successful fetch
    ws_obs,                   \* what the WebSocket loop has done so far
    flow,                     \* the config entries, and the result of the
                              \* config flow's last step
    \* ---- the binary sensor platform
    binary_sensors,           \* the sensors async_setup_entry creates
    handled,                  \* the last message their registry handled
    \* ---- the leakomatic.change_mode service
    service,                  \* what its last call did
    \* ---- the integration's setup and the other platforms
    hass,                     \* hass.data[DOMAIN][entry_id] and the setup
    entities,                 \* the entities of the sensor and select
                              \* platforms
    \* ---- async_authenticate as coroutines that can overlap
    session,                  \* self._session
    runs,                     \* per run, its position and its locals
    \* ---- several config entries
    services                  \* the entries in hass.data[DOMAIN] (loaded),
                              \* those whose setup returned True (ready),
                              \* the entry whose async_change_mode is
                              \* registered as leakomatic.change_mode
                              \* (handler), and the last call of it

vars == << auth_token, xsrf_token, cookies, device_ids, user_id, error_code,
           ws_running, ws_callbacks, device_data_cache, device_data_cache_time,
           pc, retry_count, retry_delay, actual_delay, retry_cfg, now, last,
           fetched, ws_obs, flow, binary_sensors, handled, service, hass,
           entities, session, runs, services >>

http_vars == << auth_token, xsrf_token, cookies, device_ids, user_id,
                error_code, device_data_cache, device_data_cache_time >>

ws_vars == << pc, retry_count, retry_delay, actual_delay, ws_obs >>

ha_vars == << binary_sensors, handled, service, hass, entities >>

-----------------------------------------------------------------------------
(* Values *)

\* Python's None
NONE == "None"

\* const.py:110-113
ERROR_AUTH_TOKEN_MISSING == "auth_token_missing"
ERROR_INVALID_CREDENTIALS == "invalid_credentials"
ERROR_XSRF_TOKEN_MISSING == "xsrf_token_missing"
ERROR_NO_DEVICES_FOUND == "no_devices_found"

ErrorCodes == { ERROR_AUTH_TOKEN_MISSING, ERROR_INVALID_CREDENTIALS,
                ERROR_XSRF_TOKEN_MISSING, ERROR_NO_DEVICES_FOUND }

\* const.py:106
MAX_RETRIES == 5

\* timedelta(minutes=15) of the device data cache
CACHE_MINUTES == 15

\* The device rows a page can show, and the device id of each: the row id
\* with every "device_" removed (element['id'].replace('device_', '')).
RowIds == { "device_1", "device_2" }

DeviceIds == { "1", "2" }

StripDevicePrefix(row) ==
    CASE row = "device_1" -> "1"
      [] row = "device_2" -> "2"

\* The values the server can give the XSRF-TOKEN cookie, the CSRF meta tag,
\* the other cookies and the device JSON.
XsrfValues == { "x1", "x2" }

CsrfValues == { "csrf1" }

DataValues == { "v1", "v2" }

\* A response without the XSRF-TOKEN cookie
NoCookie == "absent"

-----------------------------------------------------------------------------
(* The client as a record, for the operators below *)

\* A cookie jar holding the cookies named, and no jar at all (None)
Jar(names) == [jar |-> TRUE, names |-> names]

NoJar == [jar |-> FALSE, names |-> {}]

Client ==
    [ auth_token |-> auth_token, xsrf_token |-> xsrf_token,
      cookies |-> cookies, device_ids |-> device_ids, user_id |-> user_id,
      error_code |-> error_code, cache |-> device_data_cache,
      cache_time |-> device_data_cache_time ]

\* LeakomaticClient.__init__. A device id is a key of both cache dicts or of
\* neither (lines 339-340): cache[d] = None stands for "d is no key", and
\* cache_time[d] is read only when d is a key.
NewClient ==
    [ auth_token |-> NONE, xsrf_token |-> NONE, cookies |-> NoJar,
      device_ids |-> << >>, user_id |-> NONE, error_code |-> NONE,
      cache |-> [d \in DeviceIds |-> NONE],
      cache_time |-> [d \in DeviceIds |-> 0] ]

\* device_id property: the first device id, or None
FirstDeviceId(c) == IF Len(c.device_ids) > 0 THEN c.device_ids[1] ELSE NONE

\* _async_get_xsrf_token: the value of the XSRF-TOKEN cookie as the pattern
\* XSRF-TOKEN=([^;]+) finds it in str(morsel); an absent cookie and a cookie
\* with an empty value both give None.
GetXsrfToken(cookie) ==
    IF cookie = NoCookie THEN NONE
    ELSE IF cookie = "" THEN NONE
    ELSE cookie

\* self._cookies.update(response.cookies), for a jar that is not None
CookiesUpdate(jar, new) == Jar(jar.names \cup new)

-----------------------------------------------------------------------------
(* What the server can answer *)

\* The start page: the request raises, or is answered with a status, cookies
\* and possibly a <meta name="csrf-token"> (None: no tag, "": empty content).
StartResponses ==
    { [exc |-> TRUE, status |-> 0, cookies |-> {}, csrf |-> NONE],
      [exc |-> FALSE, status |-> 500, cookies |-> {}, csrf |-> NONE] }
    \cup [ exc : {FALSE}, status : {200}, cookies : {{"a"}},
           csrf : {NONE, ""} \cup CsrfValues ]

\* The login POST: the request raises, or is answered with a status, an
\* XSRF-TOKEN cookie, other cookies, and a page that may hold an alert-danger
\* div, a link to /users/<id> and device rows.
LoginPages ==
    { [alert |-> TRUE, userlink |-> NONE, rows |-> << >>],
      [alert |-> FALSE, userlink |-> NONE, rows |-> << >>],
      [alert |-> FALSE, userlink |-> NONE, rows |-> << "device_1" >>],
      [alert |-> FALSE, userlink |-> "7", rows |-> << >>],
      [alert |-> FALSE, userlink |-> "7", rows |-> << "device_1" >>],
      [alert |-> FALSE, userlink |-> "7", rows |-> << "device_2", "device_1" >>] }

LoginResponses ==
    { [exc |-> TRUE, status |-> 0, xsrf |-> NoCookie, cookies |-> {},
       page |-> [alert |-> FALSE, userlink |-> NONE, rows |-> << >>]],
      [exc |-> FALSE, status |-> 401, xsrf |-> NoCookie, cookies |-> {},
       page |-> [alert |-> FALSE, userlink |-> NONE, rows |-> << >>]] }
    \cup [ exc : {FALSE}, status : {200}, xsrf : {NoCookie, ""},
           cookies : {{}},
           page : {[alert |-> FALSE, userlink |-> "7",
                    rows |-> << "device_1" >>]} ]
    \cup [ exc : {FALSE}, status : {200}, xsrf : XsrfValues,
           cookies : {{"b"}}, page : LoginPages ]

\* A device request (status JSON, status page, change_mode, reset_alarms):
\* the request raises, or is answered with a status, possibly a new
\* XSRF-TOKEN cookie, and a body. The body is device JSON (or "bad": not
\* JSON) for the JSON endpoint and a page with or without token=<ws token>
\* for the status page.
DeviceResponses ==
    { [exc |-> TRUE, status |-> 0, xsrf |-> NoCookie, cookies |-> {},
       body |-> "bad"],
      [exc |-> FALSE, status |-> 404, xsrf |-> NoCookie, cookies |-> {},
       body |-> "bad"] }
    \cup [ exc : {FALSE}, status : {200}, xsrf : {NoCookie, "x2"},
           cookies : {{}}, body : DataValues \cup {"bad"} ]

\* The status page of a device: as a device response, its body the page's
\* token=<ws token>, or "bad" for a page without one.
WsTokens == { "w1" }

PageResponses ==
    { [exc |-> TRUE, status |-> 0, xsrf |-> NoCookie, cookies |-> {},
       body |-> "bad"],
      [exc |-> FALSE, status |-> 404, xsrf |-> NoCookie, cookies |-> {},
       body |-> "bad"] }
    \cup [ exc : {FALSE}, status : {200}, xsrf : {NoCookie, "x2"},
           cookies : {{}}, body : WsTokens \cup {"bad"} ]

\* The answer to a POST (change_mode.json, reset_alarms.json)
PostResponses ==
    { [exc |-> TRUE, status |-> 0, xsrf |-> NoCookie, cookies |-> {},
       body |-> "bad"],
      [exc |-> FALSE, status |-> 500, xsrf |-> NoCookie, cookies |-> {},
       body |-> "bad"] }
    \cup [ exc : {FALSE}, status : {200}, xsrf : {NoCookie, "x1"},
           cookies : {{}}, body : {"ok"} ]

\* One request as the server sees it
Request(kind, dev, c) ==
    [ req |-> kind, dev |-> dev, token |-> c.xsrf_token,
      cookies |-> c.cookies ]

-----------------------------------------------------------------------------
(* Authentication *)

\* _async_get_startpage: the CSRF token of the start page, or None
AsyncGetStartpage(c, r) ==
    IF r.exc \/ r.status # 200
    THEN [c |-> c, ret |-> NONE]
    ELSE [c |-> [c EXCEPT !.cookies = Jar(r.cookies)],
          ret |-> IF r.csrf = NONE \/ r.csrf = "" THEN NONE ELSE r.csrf]

\* _async_login. A page without a /users/ link makes the code evaluate the
\* undefined name device_id (lines 260 and 263): the NameError leaves through
\* the outer except, which returns False and sets no error code.
AsyncLogin(c, r) ==
    IF r.exc THEN [c |-> c, ret |-> FALSE]
    ELSE IF r.status # 200
    THEN [c |-> [c EXCEPT !.error_code = ERROR_INVALID_CREDENTIALS],
          ret |-> FALSE]
    ELSE IF GetXsrfToken(r.xsrf) = NONE
    THEN [c |-> [c EXCEPT !.error_code = ERROR_XSRF_TOKEN_MISSING],
          ret |-> FALSE]
    ELSE IF ~c.cookies.jar THEN [c |-> c, ret |-> FALSE]
    ELSE LET c1 == [c EXCEPT !.cookies = CookiesUpdate(c.cookies, r.cookies),
                             !.xsrf_token = GetXsrfToken(r.xsrf)]
         IN  IF r.page.alert
             THEN [c |-> [c1 EXCEPT !.error_code = ERROR_INVALID_CREDENTIALS],
                   ret |-> FALSE]
             ELSE IF r.page.userlink = NONE
             THEN [c |-> c1, ret |-> FALSE]
             ELSE LET c2 == [c1 EXCEPT !.user_id = r.page.userlink]
                  IN  IF Len(r.page.rows) = 0
                      THEN [c |-> [c2 EXCEPT
                                     !.error_code = ERROR_NO_DEVICES_FOUND],
                            ret |-> FALSE]
                      ELSE [c |-> [c2 EXCEPT !.device_ids =
                                     [i \in 1..Len(r.page.rows) |->
                                        StripDevicePrefix(r.page.rows[i])]],
                            ret |-> TRUE]

\* async_authenticate: the start page, then the login. reqs are the requests
\* it sends, auths counts its runs.
AsyncAuthenticate(c, sr, lr) ==
    LET s == AsyncGetStartpage(c, sr)
        c1 == [s.c EXCEPT !.auth_token = s.ret]
        l == AsyncLogin(c1, lr)
    IN  IF s.ret = NONE
        THEN [c |-> [c1 EXCEPT !.error_code = ERROR_AUTH_TOKEN_MISSING],
              ret |-> FALSE,
              reqs |-> << Request("start", NONE, NewClient) >>,
              auths |-> 1]
        ELSE [c |-> l.c, ret |-> l.ret,
              reqs |-> << Request("start", NONE, NewClient),
                          Request("login", NONE, NewClient) >>,
              auths |-> 1]

\* _ensure_authenticated without the test of line 539
EnsureAuthenticatedAlways(c, sr, lr) == AsyncAuthenticate(c, sr, lr)

\* _ensure_authenticated: authenticate when no XSRF token is held
EnsureAuthenticated(c, sr, lr) ==
    IF c.xsrf_token = NONE
    THEN AsyncAuthenticate(c, sr, lr)
    ELSE [c |-> c, ret |-> TRUE, reqs |-> << >>, auths |-> 0]

\* UpdateSessionFromResponse storing what the response's cookie gives
UpdateSessionStoresNone(c, r) ==
    [c EXCEPT !.cookies = CookiesUpdate(c.cookies, r.cookies),
              !.xsrf_token = GetXsrfToken(r.xsrf)]

\* _update_session_from_response, for a jar that is not None
UpdateSessionFromResponse(c, r) ==
    [c EXCEPT !.cookies = CookiesUpdate(c.cookies, r.cookies),
              !.xsrf_token = IF GetXsrfToken(r.xsrf) # NONE
                             THEN GetXsrfToken(r.xsrf) ELSE c.xsrf_token]

-----------------------------------------------------------------------------
(* Device operations. Each returns the client after it, what it returns      *)
(* (ret), the requests it sent (reqs), how often it authenticated (auths),   *)
(* whether it reached its _ensure_authenticated (reached) and whether the    *)
(* cache answered (hit).                                                     *)

Outcome(c, ret, reqs, auths, reached, hit) ==
    [ c |-> c, ret |-> ret, reqs |-> reqs, auths |-> auths,
      reached |-> reached, hit |-> hit ]

\* What the server answers during one call: env.start and env.login to an
\* authentication it may run, env.dev to its device request.
Env(sr, lr, dr) == [start |-> sr, login |-> lr, dev |-> dr]

\* CacheFresh with <= for the < of line 310
CacheFreshInclusive(c, dev, t) ==
    c.cache[dev] # NONE /\ t - c.cache_time[dev] <= CACHE_MINUTES

\* Lines 307-311: the cache holds data of dev fetched less than 15 minutes
\* before t
CacheFresh(c, dev, t) ==
    c.cache[dev] # NONE /\ t - c.cache_time[dev] < CACHE_MINUTES

\* async_get_device_data for one device (lines 301-344), called at time t
GetDeviceDataOne(c, device_id, t, env) ==
    LET dev == IF device_id # NONE THEN device_id ELSE FirstDeviceId(c)
        r == env.dev
        Fetch(e, rq, c2) ==
            IF ~e.ret
            THEN Outcome(e.c, NONE, e.reqs, e.auths, TRUE, FALSE)
            ELSE IF r.exc \/ r.status # 200 \/ ~e.c.cookies.jar
            THEN Outcome(e.c, NONE, e.reqs \o rq, e.auths, TRUE, FALSE)
            ELSE IF r.body = "bad"
            THEN Outcome(c2, NONE, e.reqs \o rq, e.auths, TRUE, FALSE)
            ELSE Outcome([c2 EXCEPT !.cache[dev] = r.body,
                                    !.cache_time[dev] = t],
                         r.body, e.reqs \o rq, e.auths, TRUE, FALSE)
        Authed(e) ==
            Fetch(e, << Request("data", dev, e.c) >>,
                  UpdateSessionFromResponse(e.c, r))
    IN  IF dev = NONE
        THEN Outcome(c, NONE, << >>, 0, FALSE, FALSE)
        ELSE IF CacheFresh(c, dev, t)
        THEN Outcome(c, c.cache[dev], << >>, 0, FALSE, TRUE)
        ELSE Authed(EnsureAuthenticated(c, env.start, env.login))

\* async_get_websocket_token (lines 353-402)
GetWebsocketToken(c, env) ==
    LET r == env.dev
        Fetch(e, rq, c2) ==
            IF ~e.ret
            THEN Outcome(e.c, NONE, e.reqs, e.auths, TRUE, FALSE)
            ELSE IF r.exc \/ r.status # 200 \/ ~e.c.cookies.jar
            THEN Outcome(e.c, NONE, e.reqs \o rq, e.auths, TRUE, FALSE)
            ELSE IF r.body = "bad"
            THEN Outcome(c2, NONE, e.reqs \o rq, e.auths, TRUE, FALSE)
            ELSE Outcome(c2, r.body, e.reqs \o rq, e.auths, TRUE, FALSE)
        Authed(e) ==
            Fetch(e, << Request("page", FirstDeviceId(c), e.c) >>,
                  UpdateSessionFromResponse(e.c, r))
    IN  IF Len(c.device_ids) = 0
        THEN Outcome(c, NONE, << >>, 0, FALSE, FALSE)
        ELSE Authed(EnsureAuthenticated(c, env.start, env.login))

\* _async_make_request (lines 598-657): ret is "True" or "False"
MakeRequest(c, endpoint, device_id, env) ==
    LET dev == IF device_id # NONE THEN device_id ELSE FirstDeviceId(c)
        r == env.dev
        Post(e, rq) ==
            IF ~e.ret
            THEN Outcome(e.c, "False", e.reqs, e.auths, TRUE, FALSE)
            ELSE IF r.exc \/ r.status # 200 \/ ~e.c.cookies.jar
            THEN Outcome(e.c, "False", e.reqs \o rq, e.auths, TRUE, FALSE)
            ELSE Outcome(UpdateSessionFromResponse(e.c, r), "True",
                         e.reqs \o rq, e.auths, TRUE, FALSE)
        Authed(e) == Post(e, << Request(endpoint, dev, e.c) >>)
    IN  IF dev = NONE
        THEN Outcome(c, "False", << >>, 0, FALSE, FALSE)
        ELSE Authed(EnsureAuthenticated(c, env.start, env.login))

\* The mode strings a caller can pass, and str.upper() of each
Modes == { "home", "away", "pause", "Away", "party" }

Upper(mode) ==
    CASE mode = "home" -> "HOME"
      [] mode = "away" -> "AWAY"
      [] mode = "Away" -> "AWAY"
      [] mode = "pause" -> "PAUSE"
      [] mode = "party" -> "PARTY"

\* DeviceMode.from_string without the upper() of line 66
FromStringCaseSensitive(mode) ==
    CASE mode = "home" -> "0"
      [] mode = "away" -> "1"
      [] mode = "pause" -> "2"
      [] OTHER -> "ValueError"

\* DeviceMode.from_string (const.py:52-68): the numeric mode, or "ValueError"
FromString(mode) ==
    CASE Upper(mode) = "HOME" -> "0"
      [] Upper(mode) = "AWAY" -> "1"
      [] Upper(mode) = "PAUSE" -> "2"
      [] OTHER -> "ValueError"

\* async_change_mode for one device (lines 669-701, without 674-679)
ChangeModeOne(c, mode, device_id, env) ==
    LET dev == IF device_id # NONE THEN device_id ELSE FirstDeviceId(c)
    IN  IF FromString(mode) = "ValueError"
        THEN Outcome(c, "False", << >>, 0, FALSE, FALSE)
        ELSE IF dev = NONE
        THEN Outcome(c, "False", << >>, 0, FALSE, FALSE)
        ELSE MakeRequest(c, "change_mode", dev, env)

\* async_reset_alarms for one device (lines 720-733)
ResetAlarmsOne(c, device_id, env) ==
    LET dev == IF device_id # NONE THEN device_id ELSE FirstDeviceId(c)
    IN  IF dev = NONE
        THEN Outcome(c, "False", << >>, 0, FALSE, FALSE)
        ELSE MakeRequest(c, "reset_alarms", dev, env)

\* One of the three operations on one device
DeviceOpOne(op, c, mode, device_id, t, env) ==
    CASE op = "get_device_data" -> GetDeviceDataOne(c, device_id, t, env)
      [] op = "change_mode" -> ChangeModeOne(c, mode, device_id, env)
      [] op = "reset_alarms" -> ResetAlarmsOne(c, device_id, env)

\* DeviceOpEach with a loop that ends at the first call that returned False
DeviceOpEachStopping(op, c, mode, t, envs) ==
    LET ids == c.device_ids
        after[i \in 0..Len(ids)] ==
            IF i = 0
            THEN [ c |-> c, rets |-> [d \in DeviceIds |-> NONE],
                   reqs |-> << >>, auths |-> 0, reached |-> FALSE ]
            ELSE LET Add(acc, o) ==
                         [ c |-> o.c,
                           rets |-> [acc.rets EXCEPT ![ids[i]] = o.ret],
                           reqs |-> acc.reqs \o o.reqs,
                           auths |-> acc.auths + o.auths,
                           reached |-> acc.reached \/ o.reached ]
                     Call(acc) ==
                         IF \E d \in DeviceIds : acc.rets[d] = "False"
                         THEN acc
                         ELSE Add(acc, DeviceOpOne(op, acc.c, mode, ids[i],
                                                   t, envs[i]))
                 IN  Call(after[i - 1])
    IN  after[Len(ids)]

\* The loop over self._device_ids of the three operations when no device id
\* is given and two or more devices are known: one call per device, the
\* client passed from each call to the next. rets[d] is what the call for d
\* returned.
DeviceOpEach(op, c, mode, t, envs) ==
    LET ids == c.device_ids
        after[i \in 0..Len(ids)] ==
            IF i = 0
            THEN [ c |-> c, rets |-> [d \in DeviceIds |-> NONE],
                   reqs |-> << >>, auths |-> 0, reached |-> FALSE ]
            ELSE LET Add(acc, o) ==
                         [ c |-> o.c,
                           rets |-> [acc.rets EXCEPT ![ids[i]] = o.ret],
                           reqs |-> acc.reqs \o o.reqs,
                           auths |-> acc.auths + o.auths,
                           reached |-> acc.reached \/ o.reached ]
                     Call(acc) ==
                         Add(acc, DeviceOpOne(op, acc.c, mode, ids[i], t,
                                              envs[i]))
                 IN  Call(after[i - 1])
    IN  after[Len(ids)]

\* DeviceOp with a mapping that is None as soon as one device has no data
DeviceOpAllOrNone(op, c, mode, device_id, t, envs) ==
    LET Single(one) ==
            [ c |-> one.c, ret |-> one.ret, reqs |-> one.reqs,
              auths |-> one.auths, reached |-> one.reached, hit |-> one.hit,
              sub |-> FALSE, rets |-> [d \in DeviceIds |-> NONE] ]
        Looped(each) ==
            [ c |-> each.c,
              ret |-> IF op = "get_device_data"
                      THEN (IF \E d \in DeviceIds : each.rets[d] = NONE
                            THEN NONE ELSE "dict")
                      ELSE (IF \A i \in 1..Len(c.device_ids) :
                                  each.rets[c.device_ids[i]] = "True"
                            THEN "True" ELSE "False"),
              reqs |-> each.reqs, auths |-> each.auths,
              reached |-> each.reached, hit |-> FALSE, sub |-> TRUE,
              rets |-> each.rets ]
    IN  IF op = "change_mode" /\ FromString(mode) = "ValueError"
        THEN Single(DeviceOpOne(op, c, mode, device_id, t, envs[1]))
        ELSE IF device_id = NONE /\ Len(c.device_ids) > 1
        THEN Looped(DeviceOpEach(op, c, mode, t, envs))
        ELSE Single(DeviceOpOne(op, c, mode, device_id, t, envs[1]))

\* async_get_device_data, async_change_mode, async_reset_alarms: ret is what
\* the call returns ("dict" for the mapping of lines 294-299, whose entries
\* are rets), sub is TRUE when the call was the loop over the devices.
DeviceOp(op, c, mode, device_id, t, envs) ==
    LET Single(one) ==
            [ c |-> one.c, ret |-> one.ret, reqs |-> one.reqs,
              auths |-> one.auths, reached |-> one.reached, hit |-> one.hit,
              sub |-> FALSE, rets |-> [d \in DeviceIds |-> NONE] ]
        Looped(each) ==
            [ c |-> each.c,
              ret |-> IF op = "get_device_data"
                      THEN (IF \A d \in DeviceIds : each.rets[d] = NONE
                            THEN NONE ELSE "dict")
                      ELSE (IF \A i \in 1..Len(c.device_ids) :
                                  each.rets[c.device_ids[i]] = "True"
                            THEN "True" ELSE "False"),
              reqs |-> each.reqs, auths |-> each.auths,
              reached |-> each.reached, hit |-> FALSE, sub |-> TRUE,
              rets |-> each.rets ]
    IN  IF op = "change_mode" /\ FromString(mode) = "ValueError"
        THEN Single(DeviceOpOne(op, c, mode, device_id, t, envs[1]))
        ELSE IF device_id = NONE /\ Len(c.device_ids) > 1
        THEN Looped(DeviceOpEach(op, c, mode, t, envs))
        ELSE Single(DeviceOpOne(op, c, mode, device_id, t, envs[1]))

-----------------------------------------------------------------------------
(* The binary sensors (binary_sensor.py) and their message registry          *)
(* (common.py:144-183)                                                       *)

\* A key a dict does not hold
ABSENT == "absent"

\* The timestamps a message or the device data can carry as last_seen_at, and
\* datetime.fromisoformat of each, in minutes: << t >>, or << >> for the
\* ValueError of a string that is no timestamp.
TimeStrings == { "t-5", "t0", "t5", "t10", "bad" }

FromIsoFormat(s) ==
    CASE s = "t-5" -> << -5 >>
      [] s = "t0" -> << 0 >>
      [] s = "t5" -> << 5 >>
      [] s = "t10" -> << 10 >>
      [] OTHER -> << >>

\* What _device_data can hold: None (dict FALSE) or a dict, of which the keys
\* the binary sensors read are kept (<< >>, ABSENT: the dict has no such
\* key) and whether it holds any other key.
Data(fm, ps, io, ls, other) ==
    [ dict |-> TRUE, flow_mode |-> fm, port_state |-> ps, is_online |-> io,
      last_seen_at |-> ls, other |-> other ]

EmptyData == Data(<< >>, << >>, << >>, ABSENT, FALSE)

NullData == [EmptyData EXCEPT !.dict = FALSE]

\* not self._device_data
Falsy(d) == ~d.dict \/ d = EmptyData

\* The device data async_get_device_data returns, as a dict: None, the JSON
\* of one device, or the mapping from device ids to such data of
\* leakomatic_client.py:294-299.
DeviceDict(ret) ==
    CASE ret = NONE -> NullData
      [] ret = "v1" -> Data(<< 1 >>, << 0 >>, << TRUE >>, "t0", TRUE)
      [] ret = "v2" -> Data(<< 1 >>, << 128 >>, << TRUE >>, ABSENT, TRUE)
      [] OTHER -> Data(<< >>, << >>, << >>, ABSENT, TRUE)

\* binary_sensor.py:326: the device is online while seen less than 5 minutes
\* ago
ONLINE_MINUTES == 5

\* binary_sensor.py:413: the bit of port_state that says the valve is closed
VALVE_BIT == 7

\* The three sensors before async_setup_entry has created them
NoSensors ==
    [ setup |-> "none", flow |-> EmptyData, online |-> EmptyData,
      last_seen |-> << >>, valve |-> EmptyData ]

\* The constructors (binary_sensor.py:232-251, 287-313, 383-397 and
\* common.py:203): the flow indicator starts from a copy with flow_mode 0,
\* the online status sensor parses last_seen_at.
NewSensors(device_data) ==
    [ setup |-> "created",
      flow |-> IF ~device_data.dict THEN EmptyData
               ELSE [device_data EXCEPT !.flow_mode = << 0 >>],
      online |-> IF Falsy(device_data) THEN EmptyData ELSE device_data,
      last_seen |-> IF ~Falsy(device_data)
                       /\ device_data.last_seen_at # ABSENT
                    THEN FromIsoFormat(device_data.last_seen_at)
                    ELSE << >>,
      valve |-> IF Falsy(device_data) THEN EmptyData ELSE device_data ]

\* FlowIndicatorBinarySensor.is_on with a test for a flow_mode other than 0
FlowIsOnNonZero(s) ==
    IF Falsy(s.flow) THEN NONE
    ELSE IF s.flow.flow_mode \notin { << >>, << 0 >> } THEN "True"
    ELSE "False"

\* FlowIndicatorBinarySensor.is_on (lines 253-265): "True", "False" or None
FlowIsOn(s) ==
    IF Falsy(s.flow) THEN NONE
    ELSE IF s.flow.flow_mode = << 1 >> THEN "True" ELSE "False"

\* OnlineStatusBinarySensor.is_on with <= for the < of line 326
OnlineIsOnInclusive(s, t) ==
    IF Falsy(s.online) THEN NONE
    ELSE IF s.last_seen # << >>
    THEN (IF t - s.last_seen[1] <= ONLINE_MINUTES THEN "True" ELSE "False")
    ELSE IF s.online.is_online = << TRUE >> THEN "True" ELSE "False"

\* OnlineStatusBinarySensor.is_on (lines 315-331), read at time t
OnlineIsOn(s, t) ==
    IF Falsy(s.online) THEN NONE
    ELSE IF s.last_seen # << >>
    THEN (IF t - s.last_seen[1] < ONLINE_MINUTES THEN "True" ELSE "False")
    ELSE IF s.online.is_online = << TRUE >> THEN "True" ELSE "False"

\* port_state & (1 << bit) is not 0
BitSet(n, bit) == (n \div 2^bit) % 2 = 1

\* ValveBinarySensor.is_on with the test of line 413 inverted
ValveIsOnInverted(s) ==
    IF Falsy(s.valve) THEN NONE
    ELSE IF s.valve.port_state = << >> THEN NONE
    ELSE IF BitSet(s.valve.port_state[1], VALVE_BIT) THEN "True"
    ELSE "False"

\* ValveBinarySensor.is_on (lines 399-413)
ValveIsOn(s) ==
    IF Falsy(s.valve) THEN NONE
    ELSE IF s.valve.port_state = << >> THEN NONE
    ELSE IF BitSet(s.valve.port_state[1], VALVE_BIT) THEN "False"
    ELSE "True"

\* OnlineStatusBinarySensor.handle_update (lines 345-370) at time t: a
\* last_seen_at that does not parse falls back to the current time.
OnlineHandleUpdate(s, data, update_last_seen, t) ==
    [s EXCEPT !.online = data,
              !.last_seen =
                  IF ~update_last_seen THEN @
                  ELSE IF data.last_seen_at = ABSENT THEN << t >>
                  ELSE IF FromIsoFormat(data.last_seen_at) = << >>
                  THEN << t >>
                  ELSE FromIsoFormat(data.last_seen_at)]

\* {"is_online": is_online}
OnlineData(is_online) == Data(<< >>, << >>, << is_online >>, ABSENT, FALSE)

\* A message as a callback gets it: its top-level type, whether it has a
\* message that is a dict ("dict"), one that is none ("int": the timestamp
\* of a ping) or no message (ABSENT), and the operation and data of the
\* message (no data key: the empty dict of the .get default).
Message(type, body, operation, data) ==
    [ type |-> type, body |-> body, operation |-> operation, data |-> data ]

\* message.get("message", {}).get("data", {})
MessageData(m) == IF m.body = "dict" THEN m.data ELSE EmptyData

\* What a handler did: the sensors after it, and whether it raised
Handling(s, raised) == [s |-> s, raised |-> raised]

\* handle_flow_update (binary_sensor.py:59-68); data.get of line 62 raises
\* when data is None
HandleFlowUpdate(s, m, t) ==
    IF ~MessageData(m).dict THEN Handling(s, TRUE)
    ELSE Handling(OnlineHandleUpdate([s EXCEPT !.flow = MessageData(m)],
                                     OnlineData(TRUE), TRUE, t), FALSE)

\* handle_device_update (lines 70-81): the online status sensor gets the
\* data of the message
HandleDeviceUpdate(s, m, t) ==
    IF ~MessageData(m).dict THEN Handling(s, TRUE)
    ELSE Handling([OnlineHandleUpdate(s, MessageData(m), TRUE, t)
                     EXCEPT !.valve = MessageData(m)], FALSE)

\* handle_quick_test_update (lines 83-91)
HandleQuickTestUpdate(s, m, t) ==
    IF ~MessageData(m).dict THEN Handling(s, TRUE)
    ELSE Handling(OnlineHandleUpdate(s, OnlineData(TRUE), TRUE, t), FALSE)

\* handle_tightness_test_update (lines 93-100): data is only logged
HandleTightnessTestUpdate(s, m, t) ==
    Handling(OnlineHandleUpdate(s, OnlineData(TRUE), TRUE, t), FALSE)

\* handle_status_update (lines 102-112)
HandleStatusUpdate(s, m, t) ==
    IF ~MessageData(m).dict THEN Handling(s, TRUE)
    ELSE Handling(OnlineHandleUpdate([s EXCEPT !.valve = MessageData(m)],
                                     OnlineData(TRUE), TRUE, t), FALSE)

\* handle_ping (lines 114-126)
HandlePing(s, m, t) ==
    Handling(OnlineHandleUpdate(s, EmptyData, FALSE, t), FALSE)

\* handle_device_offline (lines 128-135)
HandleDeviceOffline(s, m, t) ==
    Handling(OnlineHandleUpdate(s, OnlineData(FALSE), FALSE, t), FALSE)

\* MessageHandlerRegistry.handle_message, lines 165-172: the message type;
\* "TypeError" when message["message"] is no container
RegistryMessageType(m) ==
    IF m.body = "int" THEN "TypeError"
    ELSE IF m.body = "dict" /\ m.operation # ABSENT THEN m.operation
    ELSE IF m.type # ABSENT THEN m.type
    ELSE ""

\* message_registry.handle_message(message, binary_sensors) with the handlers
\* registered at binary_sensor.py:143-150; the default handler only logs.
HandleMessage(s, m, t) ==
    CASE RegistryMessageType(m) = "TypeError" -> Handling(s, TRUE)
      [] RegistryMessageType(m) = "flow_updated" -> HandleFlowUpdate(s, m, t)
      [] RegistryMessageType(m) = "device_updated" ->
             HandleDeviceUpdate(s, m, t)
      [] RegistryMessageType(m) = "quick_test_updated" ->
             HandleQuickTestUpdate(s, m, t)
      [] RegistryMessageType(m) = "tightness_test_updated" ->
             HandleTightnessTestUpdate(s, m, t)
      [] RegistryMessageType(m) = "status_message" ->
             HandleStatusUpdate(s, m, t)
      [] RegistryMessageType(m) = "ping" -> HandlePing(s, m, t)
      [] RegistryMessageType(m) = "device_offline" ->
             HandleDeviceOffline(s, m, t)
      [] OTHER -> Handling(s, FALSE)

\* No message handled yet. msg, type and raised are the last message, its
\* type for the registry and whether handling it raised; online is what the
\* online status sensor reported when the handling ended; fetch tells how the
\* fetch of the setup ended.
NoHandled ==
    [ msg |-> Message(ABSENT, ABSENT, ABSENT, EmptyData), type |-> "none",
      raised |-> FALSE, online |-> NONE, fetch |-> "none" ]

\* The keys under which hass.data holds the devices of the entry:
\* "device_ids" as __init__.py:73 stores them, "device_id" as
\* binary_sensor.py:173 reads them.
DomainKeys == { "device_ids", "device_id" }

-----------------------------------------------------------------------------
(* The integration's setup and the entities of the sensor and select         *)
(* platforms                                                                 *)

\* __init__.py:23
PLATFORMS == { "sensor", "binary_sensor", "select", "button" }

\* The device_identifier (serial number) in the data of device d. Of the two
\* JSON bodies "v1" holds a device_identifier and "v2" holds none.
DeviceIdentifier(d, data) ==
    IF data # "v1" THEN NONE
    ELSE CASE d = "1" -> "SN1"
           [] d = "2" -> "SN2"

\* hass.data[DOMAIN][entry_id] and the position of async_setup_entry before
\* it is called: stage is "none", "platforms" while the platforms are set up,
\* "done" or "failed"; device_infos holds the devices with a device entry
\* and a device info; platforms holds the platforms whose setup has returned;
\* ws_callbacks names the platforms whose callback was appended; ws_token,
\* task and ret are the token fetched, whether the background task was
\* created and what async_setup_entry returned; msg is the last message the
\* lambda of lines 178-183 was called with (<< >>: none yet), called names
\* the callbacks it called for it and raised tells whether the last of them
\* raised.
NoHass ==
    [ stage |-> "none", device_ids |-> << >>, device_infos |-> {},
      platforms |-> {}, ws_callbacks |-> << >>, ws_token |-> NONE,
      task |-> FALSE, ret |-> NONE, msg |-> << >>, called |-> << >>,
      raised |-> FALSE ]

\* int(float(value)) of sensor.py:311 for a duration as JSON carries it, a
\* number (num) in tenths of a second or a string that is no number: the
\* whole seconds, towards zero; << >> for the ValueError of a string
IntFloat(value) ==
    IF ~value.num THEN << >>
    ELSE IF value.tenths >= 0 THEN << value.tenths \div 10 >>
    ELSE << -((-value.tenths) \div 10) >>

\* The data of a message as the sensor and select platforms read it: the
\* device_id (a serial number, or ABSENT), the duration under flow_duration
\* or current_flow_duration (<< >>: under neither) and the mode; of the keys
\* the binary sensors read it holds none.
EntityData(device_id, duration, mode) ==
    [ dict |-> TRUE, flow_mode |-> << >>, port_state |-> << >>,
      is_online |-> << >>, last_seen_at |-> ABSENT, other |-> TRUE,
      device_id |-> device_id, duration |-> duration, mode |-> mode ]

\* The FlowDurationSensor and the ModeSelect of each device before the
\* platforms have created them: sensor and select tell whether they exist,
\* serial is the serial_number of their device_info, duration and mode what
\* their _device_data hold, last_known is _last_known_duration. The device
\* data they are created from holds a duration of 0 and mode 0.
NoEntities ==
    [d \in DeviceIds |->
        [ sensor |-> FALSE, select |-> FALSE, serial |-> NONE,
          duration |-> << >>, last_known |-> << >>, mode |-> << >> ]]

\* FlowDurationSensor.native_value with >= for the > of line 312
ReadDurationFromZero(e) ==
    IF e.duration # << >> /\ IntFloat(e.duration[1]) # << >>
       /\ IntFloat(e.duration[1])[1] >= 0
    THEN [e EXCEPT !.last_known = IntFloat(e.duration[1])]
    ELSE e

\* FlowDurationSensor.native_value (sensor.py:299-320), read as
\* async_write_ha_state reads it: a duration of one second or more becomes
\* _last_known_duration, which is the value reported.
ReadDuration(e) ==
    IF e.duration # << >> /\ IntFloat(e.duration[1]) # << >>
       /\ IntFloat(e.duration[1])[1] > 0
    THEN [e EXCEPT !.last_known = IntFloat(e.duration[1])]
    ELSE e

-----------------------------------------------------------------------------
(* State *)

\* The clock stops at MaxTime
MaxTime == 16

\* The retry parameters connect_to_websocket imports from const
\* (INITIAL_RETRY_DELAY, RETRY_BACKOFF_FACTOR, MAX_RETRY_DELAY), in seconds.
RetryCfgs ==
    { [initial |-> 5, factor |-> 2, max |-> 60],
      [initial |-> 5, factor |-> 3, max |-> 20],
      [initial |-> 10, factor |-> 1, max |-> 10] }

\* No operation yet
NoInput == [csrf |-> FALSE, status |-> 0, rows |-> << >>, cause |-> NONE]

NoOp ==
    [ op |-> "none", mode |-> NONE, dev |-> NONE, t |-> 0,
      before |-> [token |-> NONE, jar |-> NoJar, devices |-> 0],
      prior |-> [d \in DeviceIds |-> [data |-> NONE, time |-> 0]],
      input |-> NoInput,
      ret |-> NONE, reqs |-> << >>, auths |-> 0,
      reached |-> FALSE, hit |-> FALSE, sub |-> FALSE,
      rets |-> [d \in DeviceIds |-> NONE] ]

\* What an operation did, from its outcome o: the operation and its
\* arguments, the time of the call, the token, the cookie jar and the number
\* of devices the client held before it, for async_get_device_data the
\* last successful fetch of each device before it, for async_authenticate what the
\* server answered (input), and the outcome.
Done(op, mode, dev, o, input) ==
    [ op |-> op, mode |-> mode, dev |-> dev, t |-> now,
      before |-> [token |-> xsrf_token, jar |-> cookies,
                  devices |-> Len(device_ids)],
      prior |-> IF op = "get_device_data" THEN fetched ELSE NoOp.prior,
      input |-> input, ret |-> o.ret, reqs |-> o.reqs, auths |-> o.auths,
      reached |-> o.reached, hit |-> o.hit, sub |-> o.sub, rets |-> o.rets ]

\* What connect_to_websocket has done: the connection attempts it made, whether
\* all of them failed, the sleeps it took, what came before its last attempt
\* ("start", "sleep", or "lost": a connection that was closed), whether its
\* last attempt opened a connection, the frame
\* it handled last on the open connection with the callbacks it called for
\* it, the error of that turn of the inner loop ("none", "parse", "receive",
\* "callback", "closed"), and whether the turn before it on the same connection ended
\* in an error.
NoFrame == [json |-> FALSE, type |-> NONE, operation |-> NONE, data |-> FALSE]

NoWsObs ==
    [ attempts |-> 0, all_failed |-> TRUE, sleeps |-> 0,
      before_attempt |-> "none", opened |-> FALSE, event |-> "none",
      frame |-> NoFrame, called |-> << >>, error |-> "none",
      after_error |-> FALSE ]

\* The runs of async_authenticate that are followed step by step, each
\* started by the _ensure_authenticated of a client operation. The
\* ClientSession a run creates (line 108) is named after the run. Of a run:
\* its position (pc), the session its request in flight was sent on (uses),
\* what the server answers to its requests (env), what it returned (ret),
\* and whether the session it created has been closed (closed). Two runs, a
\* and b, are followed.
\* The accounts a user can enter in the config flow
Emails == { "a@x", "b@x", "c@x" }

\* No config entry, no step of the config flow yet. entries[email] is the
\* device id of the entry created for email; type, errors, reason and entry
\* are the FlowResult of the last step; email is its user input; auth is
\* what its async_authenticate returned and client_error the error code of
\* its client.
NoFlow ==
    [ entries |-> [e \in Emails |-> NONE], type |-> "none", errors |-> NONE,
      reason |-> NONE, email |-> NONE, auth |-> NONE, client_error |-> NONE,
      entry |-> NONE ]

\* No call of the leakomatic.change_mode service yet
NoService ==
    [ mode |-> NONE, entity_ids |-> << >>, calls |-> << >>, reqs |-> << >>,
      result |-> "none" ]

InitWith(cfgs) ==
    /\ auth_token = NewClient.auth_token
    /\ xsrf_token = NewClient.xsrf_token
    /\ cookies = NewClient.cookies
    /\ device_ids = NewClient.device_ids
    /\ user_id = NewClient.user_id
    /\ error_code = NewClient.error_code
    /\ device_data_cache = NewClient.cache
    /\ device_data_cache_time = NewClient.cache_time
    /\ ws_running = TRUE
    /\ ws_callbacks = << >>
    /\ pc = "idle"
    /\ retry_count = 0
    /\ retry_delay = 0
    /\ actual_delay = 0
    /\ retry_cfg \in cfgs
    /\ now = 0
    /\ last = NoOp
    /\ fetched = [d \in DeviceIds |-> [data |-> NONE, time |-> 0]]
    /\ ws_obs = NoWsObs
    /\ flow = NoFlow
    /\ binary_sensors = NoSensors
    /\ handled = NoHandled
    /\ service = NoService
    /\ hass = NoHass
    /\ entities = NoEntities
    /\ session = NONE
    /\ runs = [ r \in { "a", "b" } |->
                 [ pc |-> "idle", uses |-> NONE, env |-> << >>,
                   ret |-> NONE, closed |-> FALSE ] ]
    /\ services = [ loaded |-> {}, ready |-> {}, handler |-> NONE,
                    call |-> << >> ]

Init == InitWith({ [initial |-> 5, factor |-> 2, max |-> 60] })

\* The client's fields become those of c
SetClient(c) ==
    /\ auth_token' = c.auth_token
    /\ xsrf_token' = c.xsrf_token
    /\ cookies' = c.cookies
    /\ device_ids' = c.device_ids
    /\ user_id' = c.user_id
    /\ error_code' = c.error_code
    /\ device_data_cache' = c.cache
    /\ device_data_cache_time' = c.cache_time

\* The answers the server can give during one call of a client in state c.
\* The start page and the login are asked for only when no token is held,
\* the login only after a start page with a token, the device request only
\* after a login that succeeded: an answer never asked for is left at the
\* first (raising) one.
StartOk == { sr \in StartResponses : AsyncGetStartpage(NewClient, sr).ret # NONE }

LoginOk ==
    { lr \in LoginResponses :
        AsyncLogin([NewClient EXCEPT !.cookies = Jar({})], lr).ret }

Unasked(responses) == CHOOSE r \in responses : r.exc

Envs(c, devResponses) ==
    IF c.xsrf_token = NONE
    THEN { Env(sr, Unasked(LoginResponses), Unasked(DeviceResponses)) :
             sr \in StartResponses \ StartOk }
         \cup { Env(sr, lr, Unasked(DeviceResponses)) :
                  sr \in StartOk, lr \in LoginResponses \ LoginOk }
         \cup { Env(sr, lr, dr) :
                  sr \in StartOk, lr \in LoginOk, dr \in devResponses }
    ELSE { Env(Unasked(StartResponses), Unasked(LoginResponses), dr) :
             dr \in devResponses }

\* One answer per device the call can ask about
EnvSeqs(c, device_id, devResponses) ==
    IF device_id = NONE /\ Len(c.device_ids) > 1
    THEN [1..Len(c.device_ids) -> Envs(c, devResponses)]
    ELSE [1..1 -> Envs(c, devResponses)]

-----------------------------------------------------------------------------
(* The client's operations *)

\* What the server answered to an authentication, as far as the claims name
\* it: whether the start page gave a CSRF token, the status of the login
\* answer, the device rows of its page, and the error code that names the
\* cause of a failure ("other": none of the four).
AuthInput(env) ==
    LET sr == env.start
        lr == env.login
        csrf == AsyncGetStartpage(NewClient, sr).ret # NONE
    IN  [ csrf |-> csrf,
          status |-> IF csrf /\ ~lr.exc THEN lr.status ELSE 0,
          rows |-> IF csrf /\ ~lr.exc /\ lr.status = 200
                   THEN lr.page.rows ELSE << >>,
          cause |-> IF ~csrf THEN ERROR_AUTH_TOKEN_MISSING
                    ELSE IF lr.exc THEN "other"
                    ELSE IF lr.status # 200 THEN ERROR_INVALID_CREDENTIALS
                    ELSE IF GetXsrfToken(lr.xsrf) = NONE
                    THEN ERROR_XSRF_TOKEN_MISSING
                    ELSE IF lr.page.alert THEN ERROR_INVALID_CREDENTIALS
                    ELSE IF lr.page.userlink = NONE THEN "other"
                    ELSE IF Len(lr.page.rows) = 0
                    THEN ERROR_NO_DEVICES_FOUND
                    ELSE NONE ]

\* What the server can answer during one authentication
AuthEnvs == Envs(NewClient, {Unasked(DeviceResponses)})

\* await client.async_authenticate()
Authenticate(envs) ==
    /\ \E env \in envs :
         LET Returns(a) ==
                 /\ SetClient(a.c)
                 /\ last' = Done("authenticate", NONE, NONE,
                       [ ret |-> IF a.ret THEN "True" ELSE "False",
                         reqs |-> a.reqs, auths |-> a.auths,
                         reached |-> FALSE, hit |-> FALSE, sub |-> FALSE,
                         rets |-> [d \in DeviceIds |-> NONE] ],
                       AuthInput(env))
         IN  Returns(AsyncAuthenticate(Client, env.start, env.login))
    /\ UNCHANGED << ws_running, ws_callbacks, ws_vars, retry_cfg, session,
                    runs, services, now, flow, ha_vars, fetched >>

\* The device a call with argument device_id is about
Target(c, device_id) ==
    IF device_id # NONE THEN device_id ELSE FirstDeviceId(c)

\* The call of outcome o, about device dev, fetched the data of device x from
\* the server: it sent the request for it and returns its data.
Answered(o, dev, x) ==
    /\ dev = x
    /\ \E i \in 1..Len(o.reqs) : o.reqs[i].req = "data" /\ o.reqs[i].dev = x
    /\ (IF o.sub THEN o.rets[x] ELSE o.ret) # NONE

\* await client.async_get_device_data(device_id)
GetDeviceData(responses) ==
    /\ \E d \in DeviceIds \cup {NONE} :
       \E envs \in EnvSeqs(Client, d, responses) :
         LET Returns(o) ==
                 /\ SetClient(o.c)
                 /\ last' = Done("get_device_data", NONE, d, o, NoInput)
                 /\ fetched' = [x \in DeviceIds |->
                       IF Answered(o, IF o.sub THEN x
                                      ELSE Target(Client, d), x)
                       THEN [data |-> IF o.sub THEN o.rets[x] ELSE o.ret,
                             time |-> now]
                       ELSE fetched[x]]
         IN  Returns(DeviceOp("get_device_data", Client, NONE, d, now, envs))
    /\ UNCHANGED << ws_running, ws_callbacks, ws_vars, retry_cfg, session,
                    runs, services, now, flow, ha_vars >>

\* await client.async_get_websocket_token()
GetWsToken ==
    /\ \E env \in Envs(Client, PageResponses) :
         LET Returns(o) ==
                 /\ SetClient(o.c)
                 /\ last' = Done("get_websocket_token", NONE, NONE,
                       [ ret |-> o.ret, reqs |-> o.reqs, auths |-> o.auths,
                         reached |-> o.reached, hit |-> o.hit, sub |-> FALSE,
                         rets |-> [d \in DeviceIds |-> NONE] ],
                       NoInput)
         IN  Returns(GetWebsocketToken(Client, env))
    /\ UNCHANGED << ws_running, ws_callbacks, ws_vars, retry_cfg, session,
                    runs, services, now, flow, ha_vars, fetched >>

\* await client.async_change_mode(mode, device_id)
ChangeMode(modes) ==
    /\ \E m \in modes, d \in DeviceIds \cup {NONE} :
       \E envs \in EnvSeqs(Client, d, PostResponses) :
         LET Returns(o) ==
                 /\ SetClient(o.c)
                 /\ last' = Done("change_mode", m, d, o, NoInput)
         IN  Returns(DeviceOp("change_mode", Client, m, d, now, envs))
    /\ UNCHANGED << ws_running, ws_callbacks, ws_vars, retry_cfg, session,
                    runs, services, now, flow, ha_vars, fetched >>

\* await client.async_reset_alarms(device_id)
ResetAlarms ==
    /\ \E d \in DeviceIds \cup {NONE} :
       \E envs \in EnvSeqs(Client, d, PostResponses) :
         LET Returns(o) ==
                 /\ SetClient(o.c)
                 /\ last' = Done("reset_alarms", NONE, d, o, NoInput)
         IN  Returns(DeviceOp("reset_alarms", Client, NONE, d, now, envs))
    /\ UNCHANGED << ws_running, ws_callbacks, ws_vars, retry_cfg, session,
                    runs, services, now, flow, ha_vars, fetched >>

\* Time passes
Tick(steps) ==
    /\ \E s \in steps : now + s <= MaxTime /\ now' = now + s
    /\ UNCHANGED << http_vars, ws_running, ws_callbacks, ws_vars, retry_cfg,
                    session, runs, services, last, fetched, flow,
                    ha_vars >>

-----------------------------------------------------------------------------
(* async_authenticate (lines 103-134) step by step, for runs that overlap  *)

\* A request in flight ends with the server's answer, or, when the session
\* it was sent on has been closed meanwhile, with that answer or with an
\* exception.

\* Lines 130-134, entered as run r returns ret with the client as c:
\* whatever session self._session holds is closed, and the run waits for
\* the close; with no session it has returned.
Finally(r, c, ret) ==
    /\ SetClient(c)
    /\ UNCHANGED session
    /\ IF session # NONE
       THEN runs' = [runs EXCEPT ![session].closed = TRUE,
                                 ![r].pc = "closing", ![r].ret = ret,
                                 ![r].uses = NONE]
       ELSE runs' = [runs EXCEPT ![r].pc = "done", ![r].ret = ret,
                                 ![r].uses = NONE]

\* _ensure_authenticated finds no token (line 539) and calls
\* async_authenticate, which stores a new ClientSession in self._session
\* (line 108) and sends the GET of the start page on it (line 156).
BeginAuthenticate(r, envs) ==
    /\ runs[r].pc = "idle"
    /\ xsrf_token = NONE
    /\ \E env \in envs :
         runs' = [runs EXCEPT ![r].pc = "get", ![r].uses = r,
                              ![r].env = << env >>]
    /\ session' = r
    /\ UNCHANGED << http_vars, ws_running, ws_callbacks, ws_vars, retry_cfg,
                    services, now, last, fetched, flow, ha_vars >>

\* The GET of the start page ends (lines 156-178): without a CSRF token the
\* run fails (111-114); with one, the login POST is sent on the session
\* self._session holds now (line 217), and with self._session None the
\* AttributeError makes _async_login return False (277-279).
StartpageAnswered(r) ==
    /\ runs[r].pc = "get"
    /\ \E sr \in { runs[r].env[1].start }
                 \cup IF runs[runs[r].uses].closed
                      THEN { Unasked(StartResponses) } ELSE {} :
         LET Got(s) ==
                 IF s.ret = NONE
                 THEN Finally(r, [s.c EXCEPT
                                    !.auth_token = NONE,
                                    !.error_code = ERROR_AUTH_TOKEN_MISSING],
                              "False")
                 ELSE IF session = NONE
                 THEN Finally(r, [s.c EXCEPT !.auth_token = s.ret], "False")
                 ELSE /\ SetClient([s.c EXCEPT !.auth_token = s.ret])
                      /\ runs' = [runs EXCEPT ![r].pc = "post",
                                              ![r].uses = session]
                      /\ UNCHANGED session
         IN  Got(AsyncGetStartpage(Client, sr))
    /\ UNCHANGED << ws_running, ws_callbacks, ws_vars, retry_cfg, services,
                    now, last, fetched, flow, ha_vars >>

\* The login POST ends (lines 217-279); the run returns what _async_login
\* returns (117-123).
LoginAnswered(r) ==
    /\ runs[r].pc = "post"
    /\ \E lr \in { runs[r].env[1].login }
                 \cup IF runs[runs[r].uses].closed
                      THEN { Unasked(LoginResponses) } ELSE {} :
         LET Got(l) == Finally(r, l.c, IF l.ret THEN "True" ELSE "False")
         IN  Got(AsyncLogin(Client, lr))
    /\ UNCHANGED << ws_running, ws_callbacks, ws_vars, retry_cfg, services,
                    now, last, fetched, flow, ha_vars >>

\* await self._session.close() ends and line 134 sets self._session to
\* None.
SessionClosed(r) ==
    /\ runs[r].pc = "closing"
    /\ session' = NONE
    /\ runs' = [runs EXCEPT ![r].pc = "done"]
    /\ UNCHANGED << http_vars, ws_running, ws_callbacks, ws_vars, retry_cfg,
                    services, now, last, fetched, flow, ha_vars >>

-----------------------------------------------------------------------------
(* The WebSocket loop: connect_to_websocket (lines 404-523) *)

\* const.py:19-38
MessageTypes ==
    { "welcome", "ping", "confirm_subscription", "device_updated",
      "alarm_triggered", "configuration_added", "quick_test_updated",
      "tightness_test_updated", "flow_updated", "flow_sensor_updated",
      "analog_sensor_message", "device_offline", "status_message",
      "water_meter_calibration_updated" }

\* The frames the server can send: text that is no JSON object, the three
\* ActionCable frames with a top-level type, and frames with a message, its
\* operation and possibly data.
Frames ==
    { [json |-> FALSE, type |-> NONE, operation |-> NONE, data |-> FALSE] }
    \cup [ json : {TRUE}, type : {"welcome", "ping", "confirm_subscription"},
           operation : {NONE}, data : {FALSE} ]
    \cup [ json : {TRUE}, type : {NONE},
           operation : { "flow_updated", "device_updated",
                         "quick_test_updated", "tightness_test_updated",
                         "alarm_triggered", "device_offline",
                         "status_message", "reboot" },
           data : {TRUE} ]
    \cup { [json |-> TRUE, type |-> NONE, operation |-> NONE, data |-> FALSE] }

\* _extract_message_type (lines 547-570)
ExtractMessageType(f) ==
    IF f.type \in {"ping", "confirm_subscription", "welcome"} THEN f.type
    ELSE IF f.operation \in MessageTypes THEN f.operation
    ELSE IF f.data THEN "data_update"
    ELSE ""

\* Lines 466-485: the callbacks called for a frame of message type mt, in
\* order; a callback that raises does not stop the ones after it.
Dispatch(mt, callbacks) ==
    IF mt \in {"welcome", "ping", "confirm_subscription"} THEN << >>
    ELSE IF mt # "" THEN callbacks
    ELSE << >>

\* The callbacks a caller can register
Callbacks == { "cb1" }

\* The model follows at most MaxAttempts connection attempts of one call
MaxAttempts == 7

Min(a, b) == IF a <= b THEN a ELSE b

\* Backoff without the cap of line 504
BackoffUncapped(delay, cfg) == delay * cfg.factor

\* Lines 502-505: the next retry delay
Backoff(delay, cfg) == Min(delay * cfg.factor, cfg.max)

\* Lines 507-508: retry_delay + random.uniform(-jitter, jitter) with
\* jitter = retry_delay * 0.2, sampled at its ends and its middle
Jittered(delay) == { delay - delay \div 5, delay, delay + delay \div 5 }

\* LoopHead without the test of the running flag
LoopHeadIgnoresFlag(running, count) ==
    IF count < MAX_RETRIES THEN "connecting" ELSE "returned"

\* Line 429, the head of the outer loop: a new connection attempt, or the end
\* of the loop and of the call.
LoopHead(running, count) ==
    IF running /\ count < MAX_RETRIES THEN "connecting" ELSE "returned"

\* The outer loop is at its head, after `before` and, when a connection was
\* left, the error that ended its inner loop ("closed": ConnectionClosed): it
\* starts an attempt or returns.
AtLoopHead(count, before, error) ==
    /\ pc' = LoopHead(ws_running, count)
    /\ IF LoopHead(ws_running, count) = "connecting"
       THEN /\ ws_obs.attempts < MaxAttempts
            /\ ws_obs' = [ws_obs EXCEPT !.attempts = @ + 1,
                                        !.before_attempt = before,
                                        !.opened = FALSE,
                                        !.event = "attempt",
                                        !.frame = NoFrame, !.called = << >>,
                                        !.error = error,
                                        !.after_error = FALSE]
       ELSE ws_obs' = [ws_obs EXCEPT !.event = "returned",
                                     !.frame = NoFrame, !.called = << >>,
                                     !.error = error,
                                     !.after_error = FALSE]

\* Retries with the comparison of line 500 off by one
RetriesOffByOne(count) == count <= MAX_RETRIES

\* Line 500: after a failure that made the count `count`, another attempt
\* follows
Retries(count) == count < MAX_RETRIES

\* Lines 498-523: an attempt failed with retry delay `delay` in force, after
\* it had opened a connection or not
OnFailure(delay, opened) ==
    /\ retry_count' = retry_count + 1
    /\ IF Retries(retry_count + 1)
       THEN /\ retry_delay' = Backoff(delay, retry_cfg)
            /\ actual_delay' \in Jittered(Backoff(delay, retry_cfg))
            /\ pc' = "sleeping"
            /\ ws_obs' = [ws_obs EXCEPT !.sleeps = @ + 1, !.event = "sleep",
                                        !.opened = opened]
       ELSE /\ retry_delay' = delay
            /\ UNCHANGED actual_delay
            /\ pc' = "gave_up"
            /\ ws_obs' = [ws_obs EXCEPT !.event = "gave_up",
                                        !.opened = opened]

\* connect_to_websocket is called (lines 411-429): the callback is stored,
\* the client authenticates if it has to, and the loop is entered.
ConnectToWebsocket(envs) ==
    /\ pc = "idle"
    /\ \E cb \in Callbacks, env \in envs :
         LET Enters(e) == e.ret /\ e.c.user_id # NONE /\ e.c.user_id # ""
             Authed(e) ==
                 /\ SetClient(e.c)
                 /\ ws_callbacks' = Append(ws_callbacks, cb)
                 /\ last' = Done("connect_to_websocket", NONE, NONE,
                       [ ret |-> NONE, reqs |-> e.reqs, auths |-> e.auths,
                         reached |-> TRUE, hit |-> FALSE, sub |-> FALSE,
                         rets |-> [d \in DeviceIds |-> NONE] ], NoInput)
                 /\ IF Enters(e)
                    THEN /\ retry_count' = 0
                         /\ retry_delay' = retry_cfg.initial
                         /\ AtLoopHead(0, "start", "none")
                    ELSE /\ pc' = "returned"
                         /\ ws_obs' = [ws_obs EXCEPT !.event = "returned"]
                         /\ UNCHANGED << retry_count, retry_delay >>
         IN  Authed(EnsureAuthenticated(Client, env.start, env.login))
    /\ UNCHANGED << ws_running, actual_delay, retry_cfg, session, runs,
                    services, now, flow, ha_vars, fetched >>

\* websockets.connect and the subscription (lines 434-453) end: the connect
\* raises, or the connection opens and the send raises, or both succeed and
\* the inner loop is entered (line 456).
WsConnect ==
    /\ pc = "connecting"
    /\ \/ /\ OnFailure(retry_delay, FALSE)
       \/ /\ OnFailure(retry_cfg.initial, TRUE)
       \/ /\ retry_delay' = retry_cfg.initial
          /\ UNCHANGED << retry_count, actual_delay >>
          /\ IF ws_running
             THEN /\ pc' = "receiving"
                  /\ ws_obs' = [ws_obs EXCEPT !.all_failed = FALSE,
                                              !.opened = TRUE,
                                              !.event = "open"]
             ELSE /\ pc' = "returned"
                  /\ ws_obs' = [ws_obs EXCEPT !.all_failed = FALSE,
                                              !.opened = TRUE,
                                              !.event = "returned"]
    /\ UNCHANGED << http_vars, ws_running, ws_callbacks, retry_cfg, session,
                    runs, services, now, last, fetched, flow, ha_vars >>

\* AfterFrame without the test of the running flag
AfterFrameIgnoresFlag(f, called, error) ==
    /\ pc' = "receiving"
    /\ ws_obs' = [ws_obs EXCEPT !.event = "frame", !.frame = f,
                                !.called = called, !.error = error,
                                !.after_error = ws_obs.error # "none"]

\* Line 456 after one turn of the inner loop, which handled frame f, called
\* the callbacks `called` and caught `error` (lines 481-484, 486-488,
\* 493-496): the next receive, or the end of the inner loop, of the
\* connection and (the flag being clear) of the call.
AfterFrame(f, called, error) ==
    IF ws_running
    THEN /\ pc' = "receiving"
         /\ ws_obs' = [ws_obs EXCEPT !.event = "frame", !.frame = f,
                                     !.called = called, !.error = error,
                                     !.after_error = ws_obs.error # "none"]
    ELSE /\ pc' = "returned"
         /\ ws_obs' = [ws_obs EXCEPT !.event = "returned", !.frame = f,
                                     !.called = called, !.error = error,
                                     !.after_error = ws_obs.error # "none"]

\* OnError with every handler leaving the inner loop
OnErrorBreaks(error) == IF error = "none" THEN "continue" ELSE "break"

\* Lines 481-496: what the handlers do with the error of a turn of the inner
\* loop. ConnectionClosed leaves the loop (line 492); an error of a callback
\* is logged (484) and every other error goes on with the next receive
\* (488, 496).
OnError(error) == IF error = "closed" THEN "break" ELSE "continue"

\* wait_for(websocket.recv(), 30) ends (lines 457-496): with a frame that is
\* no JSON, or one whose callbacks return or raise; with a timeout or
\* another error of the receive; or with ConnectionClosed.
WsReceive(frames) ==
    /\ pc = "receiving"
    /\ \/ \E f \in frames, raises \in BOOLEAN :
            LET Turn(called, error) ==
                    IF OnError(error) = "break"
                    THEN AtLoopHead(retry_count, "lost", error)
                    ELSE AfterFrame(f, called, error)
            IN  IF ~f.json
                THEN ~raises /\ Turn(<< >>, "parse")
                ELSE IF Dispatch(ExtractMessageType(f), ws_callbacks) = << >>
                THEN ~raises /\ Turn(<< >>, "none")
                ELSE Turn(Dispatch(ExtractMessageType(f), ws_callbacks),
                          IF raises THEN "callback" ELSE "none")
       \/ \E error \in { "none", "receive" } :
            IF OnError(error) = "break"
            THEN AtLoopHead(retry_count, "lost", error)
            ELSE AfterFrame(NoFrame, << >>, error)
       \/ OnError("closed") = "break"
             /\ AtLoopHead(retry_count, "lost", "closed")
    /\ UNCHANGED << http_vars, ws_running, ws_callbacks, retry_count,
                    retry_delay, actual_delay, retry_cfg, session, runs,
                    services, now, last, fetched, flow, ha_vars >>

\* asyncio.sleep(actual_delay) ends (line 517); actual_delay is not read
\* again before it is assigned, and is kept at 0 outside the sleep.
WsWake ==
    /\ pc = "sleeping"
    /\ AtLoopHead(retry_count, "sleep", "none")
    /\ actual_delay' = 0
    /\ UNCHANGED << http_vars, ws_running, ws_callbacks, retry_count,
                    retry_delay, retry_cfg, session, runs, services,
                    now, last, fetched, flow, ha_vars >>

\* stop_websocket (lines 525-528)
StopWebsocket ==
    /\ ws_running
    /\ ws_running' = FALSE
    /\ UNCHANGED << http_vars, ws_callbacks, ws_vars, retry_cfg, session, runs,
                    services, now, last, fetched, flow, ha_vars >>

\* The call of connect_to_websocket has given up and returned (line 519)
GaveUp == pc = "gave_up"

-----------------------------------------------------------------------------
(* The config flow: LeakomaticConfigFlow.async_step_user                     *)
(* (config_flow.py:34-124)                                                   *)

\* FlowError without the fallback of line 62
FlowErrorNoFallback(code) == code

\* config_flow.py:62: client.error_code or "invalid_credentials"
FlowError(code) == IF code # NONE THEN code ELSE "invalid_credentials"

\* async_step_user(user_input) for user input of account email (None: the
\* form is shown for the first time), with a client of its own
AsyncStepUser(envs) ==
    /\ \E email \in Emails \cup {NONE}, env \in envs :
         LET Result(type, errors, reason, a, entry) ==
                 [ entries |-> IF type = "create_entry"
                               THEN [flow.entries EXCEPT ![email] = entry]
                               ELSE flow.entries,
                   type |-> type, errors |-> errors, reason |-> reason,
                   email |-> email,
                   auth |-> IF a.ret THEN "True" ELSE "False",
                   client_error |-> a.c.error_code, entry |-> entry ]
             Authed(a) ==
                 IF ~a.ret
                 THEN Result("form", FlowError(a.c.error_code), NONE, a, NONE)
                 ELSE IF FirstDeviceId(a.c) = NONE
                 THEN Result("form", ERROR_NO_DEVICES_FOUND, NONE, a, NONE)
                 ELSE IF flow.entries[email] # NONE
                 THEN Result("abort", NONE, "already_configured", a, NONE)
                 ELSE Result("create_entry", NONE, NONE, a,
                             FirstDeviceId(a.c))
         IN  IF email = NONE
             THEN flow' = [NoFlow EXCEPT !.entries = flow.entries,
                                         !.type = "form"]
             ELSE flow' = Authed(AsyncAuthenticate(NewClient, env.start,
                                                   env.login))
    /\ UNCHANGED << http_vars, ws_running, ws_callbacks, ws_vars, retry_cfg,
                    session, runs, services, now, last, fetched,
                    ha_vars >>

-----------------------------------------------------------------------------
(* The binary sensor platform's setup and callback *)

\* binary_sensor.async_setup_entry (lines 152-210): without a device_id and
\* a device_entry in hass.data it returns; else it fetches the device data
\* and creates the three sensors from it.
SetupEntry(keys, responses) ==
    /\ binary_sensors.setup = "none"
    /\ \E key \in keys :
         IF key # "device_id"
         THEN /\ binary_sensors' = [binary_sensors EXCEPT !.setup = "missing"]
              /\ UNCHANGED << http_vars, last, fetched, handled >>
         ELSE \E envs \in EnvSeqs(Client, NONE, responses) :
                LET Returns(o) ==
                        /\ SetClient(o.c)
                        /\ last' = Done("get_device_data", NONE, NONE, o,
                                        NoInput)
                        /\ fetched' = [x \in DeviceIds |->
                              IF Answered(o, IF o.sub THEN x
                                             ELSE Target(Client, NONE), x)
                              THEN [data |-> IF o.sub THEN o.rets[x]
                                             ELSE o.ret,
                                    time |-> now]
                              ELSE fetched[x]]
                        /\ binary_sensors' = NewSensors(DeviceDict(o.ret))
                        /\ handled' = [NoHandled EXCEPT !.fetch =
                              IF o.ret = NONE THEN "failed" ELSE "ok"]
                IN  Returns(DeviceOp("get_device_data", Client, NONE, NONE,
                                     now, envs))
    /\ hass' = [hass EXCEPT
          !.platforms = @ \cup { "binary_sensor" },
          !.ws_callbacks = IF binary_sensors'.setup = "created"
                           THEN Append(@, "binary_sensor") ELSE @]
    /\ UNCHANGED << ws_running, ws_callbacks, ws_vars, retry_cfg, session,
                    runs, services, now, flow, service, entities >>

\* handle_ws_message (binary_sensor.py:203-205), the callback the setup
\* appends to ws_callbacks, is called with a message
HandleWsMessage(msgs) ==
    /\ binary_sensors.setup = "created"
    /\ \E m \in msgs :
         LET Returns(h) ==
                 /\ binary_sensors' = h.s
                 /\ handled' = [ msg |-> m, type |-> RegistryMessageType(m),
                                 raised |-> h.raised,
                                 online |-> OnlineIsOn(h.s, now),
                                 fetch |-> handled.fetch ]
         IN  Returns(HandleMessage(binary_sensors, m, now))
    /\ UNCHANGED << http_vars, ws_running, ws_callbacks, ws_vars, retry_cfg,
                    session, runs, services, now, last, fetched, flow,
                    service, hass, entities >>

-----------------------------------------------------------------------------
(* The leakomatic.change_mode service (__init__.py:190-267) *)

\* The entities a call can name: the mode selects of the two devices, an
\* entity the registry does not know, and an entity of another integration
\* (its device has no leakomatic identifier).
EntityIds == { "select.mode_1", "select.mode_2", "select.gone", "light.other" }

\* Lines 234-260: the Leakomatic device id of an entity, from the entity
\* registry and the identifiers of its device; None when a lookup fails
LeakomaticDeviceId(entity_id) ==
    CASE entity_id = "select.mode_1" -> "1"
      [] entity_id = "select.mode_2" -> "2"
      [] OTHER -> NONE

\* ServiceTargets with break for the continue of lines 237, 243, 249, 260
ServiceTargetsBreaking(entity_ids) ==
    LET found[i \in 0..Len(entity_ids)] ==
            IF i = 0 THEN [ids |-> << >>, stopped |-> FALSE]
            ELSE IF found[i - 1].stopped THEN found[i - 1]
            ELSE IF LeakomaticDeviceId(entity_ids[i]) = NONE
            THEN [found[i - 1] EXCEPT !.stopped = TRUE]
            ELSE [found[i - 1] EXCEPT !.ids =
                    Append(@, LeakomaticDeviceId(entity_ids[i]))]
    IN  found[Len(entity_ids)].ids

\* The loop of lines 232-267: the devices client.async_change_mode is called
\* for, in order; an entity that does not resolve is skipped.
ServiceTargets(entity_ids) ==
    LET found[i \in 0..Len(entity_ids)] ==
            IF i = 0 THEN << >>
            ELSE IF LeakomaticDeviceId(entity_ids[i]) = NONE
            THEN found[i - 1]
            ELSE Append(found[i - 1], LeakomaticDeviceId(entity_ids[i]))
    IN  found[Len(entity_ids)]

\* Line 263 for each target: the client after the calls, and the requests
\* they sent
ServiceCalls(c, mode, targets, t, envs) ==
    LET after[i \in 0..Len(targets)] ==
            IF i = 0 THEN [c |-> c, reqs |-> << >>]
            ELSE LET Add(acc, o) == [c |-> o.c, reqs |-> acc.reqs \o o.reqs]
                     Call(acc) ==
                         Add(acc, DeviceOp("change_mode", acc.c, mode,
                                           targets[i], t, << envs[i] >>))
                 IN  Call(after[i - 1])
    IN  after[Len(targets)]

\* async_change_mode(call). The service is registered by async_setup_entry
\* after the client has authenticated (lines 61-64), so the client holds its
\* token.
ServiceChangeMode(modes, entity_lists) ==
    /\ xsrf_token # NONE
    /\ \E mode \in modes, entity_ids \in entity_lists :
         IF \/ mode \in { NONE, "" }
            \/ FromString(mode) = "ValueError"
            \/ entity_ids = << >>
         THEN /\ service' = [ mode |-> mode, entity_ids |-> entity_ids,
                              calls |-> << >>, reqs |-> << >>,
                              result |-> "rejected" ]
              /\ UNCHANGED http_vars
         ELSE \E envs \in [1..Len(ServiceTargets(entity_ids)) ->
                             Envs(Client, PostResponses)] :
                LET Returns(targets, o) ==
                        /\ SetClient(o.c)
                        /\ service' = [ mode |-> mode,
                                        entity_ids |-> entity_ids,
                                        calls |-> targets, reqs |-> o.reqs,
                                        result |-> "done" ]
                IN  Returns(ServiceTargets(entity_ids),
                            ServiceCalls(Client, mode,
                                         ServiceTargets(entity_ids), now,
                                         envs))
    /\ UNCHANGED << ws_running, ws_callbacks, ws_vars, retry_cfg, session,
                    runs, services, now, last, fetched, flow,
                    binary_sensors, handled, hass, entities >>

\* async_setup_entry for one of several config entries, as far as the
\* service is concerned. A config entry is named by its account; the
\* account a@x holds device 1 and b@x device 2, c@x holds no device. The
\* entry's client is stored in hass.data[DOMAIN][entry_id] (lines 49-58);
\* a setup whose authentication or fetch fails returns False (61-79), any
\* other registers its own async_change_mode, a closure over its entry,
\* under the one name leakomatic.change_mode (line 270) and returns True.
SetupRegistersService(entry) ==
    /\ entry \notin services.ready
    /\ \E ok \in BOOLEAN :
         /\ ok => entry \in { "a@x", "b@x" }
         /\ services' = [services EXCEPT
               !.loaded = @ \cup { entry },
               !.ready = IF ok THEN @ \cup { entry } ELSE @,
               !.handler = IF ok THEN entry ELSE @]
    /\ UNCHANGED << http_vars, ws_running, ws_callbacks, ws_vars, retry_cfg,
                    session, runs, now, last, fetched, flow, ha_vars >>

\* async_unload_entry (lines 275-307) for an entry that is set up: its
\* platforms are unloaded and the entry is removed from hass.data[DOMAIN];
\* the service stays registered.
AsyncUnloadEntry(entry) ==
    /\ entry \in services.ready
    /\ services' = [services EXCEPT !.loaded = @ \ { entry },
                                    !.ready = @ \ { entry }]
    /\ UNCHANGED << http_vars, ws_running, ws_callbacks, ws_vars, retry_cfg,
                    session, runs, now, last, fetched, flow, ha_vars >>

\* A call of leakomatic.change_mode with a valid mode for one entity of a
\* config entry that is set up: the registered async_change_mode resolves
\* the entity to its Leakomatic device id through the registries, which
\* hold the entities and devices of every entry (lines 211, 232-260), and
\* calls async_change_mode of the client of its own entry (lines 229, 263);
\* when its own entry has been unloaded, line 229 raises KeyError and no
\* client is called. owner is the config entry of the entity's device.
AsyncChangeModeOfEntries(modes, entity_ids) ==
    /\ services.handler # NONE
    /\ \E mode \in modes, entity_id \in entity_ids :
         /\ LeakomaticDeviceId(entity_id) # NONE
         /\ (IF LeakomaticDeviceId(entity_id) = "1" THEN "a@x" ELSE "b@x")
               \in services.ready
         /\ services' = [services EXCEPT !.call =
               << [ mode |-> mode, entity_id |-> entity_id,
                    device |-> LeakomaticDeviceId(entity_id),
                    owner |-> IF LeakomaticDeviceId(entity_id) = "1"
                              THEN "a@x" ELSE "b@x",
                    client |-> IF services.handler \in services.loaded
                               THEN services.handler ELSE NONE ] >>]
    /\ UNCHANGED << http_vars, ws_running, ws_callbacks, ws_vars, retry_cfg,
                    session, runs, now, last, fetched, flow, ha_vars >>

-----------------------------------------------------------------------------
(* The integration's setup, the sensor, select and button platforms and      *)
(* their callbacks                                                           *)

\* The data of device d in what async_get_device_data returned, after the
\* conversion of __init__.py:84-86 (sensor.py:177-179, select.py)
DeviceData(o, ids, d) ==
    IF o.sub THEN o.rets[d]
    ELSE IF d = ids[1] THEN o.ret
    ELSE NONE

\* async_setup_entry (__init__.py:29-164) up to the setup of the platforms:
\* a new client authenticates and fetches the device data; a device entry
\* and a device info are stored for every device whose data holds a
\* device_identifier.
AsyncSetupEntry(authEnvs, responses) ==
    /\ hass.stage = "none"
    /\ \E env \in authEnvs :
         LET Fails(c) ==
                 /\ SetClient(c)
                 /\ hass' = [hass EXCEPT !.stage = "failed", !.ret = "False"]
             Stores(o, ids) ==
                 /\ SetClient(o.c)
                 /\ hass' = [hass EXCEPT
                       !.stage = "platforms",
                       !.device_ids = ids,
                       !.device_infos =
                           { d \in DeviceIds :
                               DeviceIdentifier(d, DeviceData(o, ids, d))
                                   # NONE }]
             Fetched(o, ids) ==
                 IF o.ret = NONE THEN Fails(o.c) ELSE Stores(o, ids)
             Authed(a) ==
                 IF ~a.ret \/ a.c.device_ids = << >>
                 THEN Fails(a.c)
                 ELSE \E envs \in EnvSeqs(a.c, NONE, responses) :
                        Fetched(DeviceOp("get_device_data", a.c, NONE, NONE,
                                         now, envs), a.c.device_ids)
         IN  Authed(AsyncAuthenticate(NewClient, env.start, env.login))
    /\ UNCHANGED << ws_running, ws_callbacks, ws_vars, retry_cfg, session,
                    runs, services, now, last, fetched, flow,
                    binary_sensors, handled, service, entities >>

\* async_setup_entry of the sensor platform (sensor.py:142-221), the select
\* platform (select.py:69-140) and the button platform (button.py:48-93):
\* each returns when hass.data holds no device ids, entries or infos; the
\* first two fetch the device data, create the entities of every device that
\* has data and a device info, and append their callback to ws_callbacks.
SetupPlatform(platform, responses) ==
    /\ hass.stage = "platforms"
    /\ platform \notin hass.platforms
    /\ LET Returns(registers) ==
               hass' = [hass EXCEPT
                   !.platforms = @ \cup { platform },
                   !.ws_callbacks = IF registers THEN Append(@, platform)
                                    ELSE @]
           Creates(o) ==
               entities' = [d \in DeviceIds |->
                   IF \/ DeviceData(o, hass.device_ids, d) = NONE
                      \/ d \notin hass.device_infos
                   THEN entities[d]
                   ELSE IF platform = "sensor"
                   THEN ReadDuration([entities[d] EXCEPT
                            !.sensor = TRUE,
                            !.serial = DeviceIdentifier(d, "v1"),
                            !.duration = << [num |-> TRUE, tenths |-> 0] >>])
                   ELSE [entities[d] EXCEPT
                            !.select = TRUE,
                            !.serial = DeviceIdentifier(d, "v1"),
                            !.mode = << 0 >>]]
           Fetched(o) ==
               /\ SetClient(o.c)
               /\ IF o.ret = NONE
                  THEN Returns(FALSE) /\ UNCHANGED entities
                  ELSE Returns(TRUE) /\ Creates(o)
       IN  IF hass.device_ids = << >> \/ hass.device_infos = {}
              \/ platform = "button"
           THEN Returns(FALSE) /\ UNCHANGED << http_vars, entities >>
           ELSE \E envs \in EnvSeqs(Client, NONE, responses) :
                  Fetched(DeviceOp("get_device_data", Client, NONE, NONE,
                                   now, envs))
    /\ UNCHANGED << ws_running, ws_callbacks, ws_vars, retry_cfg, session,
                    runs, services, now, last, fetched, flow,
                    binary_sensors, handled, service >>

\* StartWebsocketTask without waiting for the platforms
StartWebsocketTaskEarly(responses) ==
    /\ hass.stage = "platforms"
    /\ \E env \in Envs(Client, responses) :
         LET Returns(o) ==
                 /\ SetClient(o.c)
                 /\ hass' = [hass EXCEPT !.stage = "done",
                                         !.ws_token = o.ret,
                                         !.task = (o.ret # NONE),
                                         !.ret = "True"]
         IN  Returns(GetWebsocketToken(Client, env))
    /\ UNCHANGED << ws_running, ws_callbacks, ws_vars, retry_cfg, session,
                    runs, services, now, last, fetched, flow,
                    binary_sensors, handled, service, entities >>

\* async_setup_entry from line 167 on: the platforms have been set up; the
\* WebSocket token is fetched and, with a token, the background task of the
\* WebSocket connection is created; the setup returns True.
StartWebsocketTask(responses) ==
    /\ hass.stage = "platforms"
    /\ hass.platforms = PLATFORMS
    /\ \E env \in Envs(Client, responses) :
         LET Returns(o) ==
                 /\ SetClient(o.c)
                 /\ hass' = [hass EXCEPT !.stage = "done",
                                         !.ws_token = o.ret,
                                         !.task = (o.ret # NONE),
                                         !.ret = "True"]
         IN  Returns(GetWebsocketToken(Client, env))
    /\ UNCHANGED << ws_running, ws_callbacks, ws_vars, retry_cfg, session,
                    runs, services, now, last, fetched, flow,
                    binary_sensors, handled, service, entities >>

\* The callback of the sensor platform: its registry (sensor.py:133-140)
\* and the handlers of common.py. A flow_updated message updates the flow
\* duration sensor of the device whose serial number is the message's
\* device_id (common.py:59-70); the other registered types update other
\* sensors; any other type goes to handle_default, whose log call raises
\* NameError (common.py:142).
SensorCallback(es, m) ==
    IF RegistryMessageType(m) = "flow_updated"
    THEN Handling([d \in DeviceIds |->
                      IF es[d].sensor /\ es[d].serial = m.data.device_id
                      THEN ReadDuration([es[d] EXCEPT
                               !.duration = m.data.duration])
                      ELSE es[d]], FALSE)
    ELSE IF RegistryMessageType(m) \in
              { "device_updated", "quick_test_updated",
                "tightness_test_updated", "status_message",
                "alarm_triggered", "water_meter_calibration_updated" }
    THEN Handling(es, FALSE)
    ELSE Handling(es, TRUE)

\* The callback of the select platform: its registry has the one handler
\* of select.py:58-64, which updates every mode select, and no default.
SelectCallback(es, m) ==
    IF RegistryMessageType(m) = "device_updated"
    THEN Handling([d \in DeviceIds |->
                      IF es[d].select
                      THEN [es[d] EXCEPT !.mode = m.data.mode]
                      ELSE es[d]], FALSE)
    ELSE Handling(es, FALSE)

\* The lambda of __init__.py:178-183 called with a message: the callbacks
\* of ws_callbacks are called in their order until one raises.
CallCallbacks(msgs) ==
    /\ hass.task
    /\ \E m \in msgs :
         LET after[i \in 0..Len(hass.ws_callbacks)] ==
                 IF i = 0
                 THEN [ s |-> entities, raised |-> FALSE, called |-> << >> ]
                 ELSE LET Calls(acc, h) ==
                              [ s |-> h.s, raised |-> h.raised,
                                called |-> Append(acc.called,
                                                  hass.ws_callbacks[i]) ]
                          Next1(acc) ==
                              IF acc.raised THEN acc
                              ELSE IF hass.ws_callbacks[i] = "sensor"
                              THEN Calls(acc, SensorCallback(acc.s, m))
                              ELSE IF hass.ws_callbacks[i] = "select"
                              THEN Calls(acc, SelectCallback(acc.s, m))
                              ELSE Calls(acc,
                                     Handling(acc.s,
                                         HandleMessage(binary_sensors, m,
                                                       now).raised))
                      IN  Next1(after[i - 1])
             Returns(r) ==
                 /\ entities' = r.s
                 /\ binary_sensors' =
                       IF \E i \in 1..Len(r.called) :
                            r.called[i] = "binary_sensor"
                       THEN HandleMessage(binary_sensors, m, now).s
                       ELSE binary_sensors
                 /\ hass' = [hass EXCEPT !.msg = << m >>,
                                         !.called = r.called,
                                         !.raised = r.raised]
         IN  Returns(after[Len(hass.ws_callbacks)])
    /\ UNCHANGED << http_vars, ws_running, ws_callbacks, ws_vars, retry_cfg,
                    session, runs, services, now, last, fetched, flow,
                    handled, service >>

-----------------------------------------------------------------------------
(* Specifications *)

\* The client's operations on one client. Of connect_to_websocket the call
\* and its authentication are followed here; its loop is followed in SpecWs.
Next ==
    \/ Authenticate(AuthEnvs)
    \/ GetDeviceData({ r \in DeviceResponses : r.body # "v2" })
    \/ GetWsToken
    \/ ChangeMode({ "home", "party" })
    \/ ResetAlarms
    \/ ConnectToWebsocket(Envs(Client, {Unasked(DeviceResponses)}))

Spec == Init /\ [][Next]_vars

\* The WebSocket loop of a client, the operations that stop it, and the
\* client operations that follow its end.
InitWs == InitWith(RetryCfgs)

FewAuthEnvs ==
    { e \in AuthEnvs :
        \/ e.start.exc
        \/ /\ e.login.xsrf = "x1"
           /\ e.login.page = [alert |-> FALSE, userlink |-> "7",
                              rows |-> << "device_1" >>] }

\* The client's other operations, called after connect_to_websocket has
\* given up
AuthenticateAfterWs == GaveUp /\ Authenticate(FewAuthEnvs)

GetDeviceDataAfterWs ==
    GaveUp /\ GetDeviceData({ r \in DeviceResponses : r.body = "v1" })

GetWsTokenAfterWs == GaveUp /\ GetWsToken

ChangeModeAfterWs == GaveUp /\ ChangeMode({ "home" })

ResetAlarmsAfterWs == GaveUp /\ ResetAlarms

NextWs ==
    \/ ConnectToWebsocket(FewAuthEnvs)
    \/ WsConnect
    \/ WsReceive(Frames)
    \/ WsWake
    \/ StopWebsocket
    \/ AuthenticateAfterWs
    \/ GetDeviceDataAfterWs
    \/ GetWsTokenAfterWs
    \/ ChangeModeAfterWs
    \/ ResetAlarmsAfterWs

SpecWs == InitWs /\ [][NextWs]_vars

\* The WebSocket loop alone, with the steps the claims' provisos and the
\* library promise: a connection attempt ends (open_timeout), a receive
\* ends (wait_for, 30 s), a sleep ends.
NextStop ==
    \/ ConnectToWebsocket(FewAuthEnvs)
    \/ WsConnect
    \/ WsReceive(Frames)
    \/ WsWake
    \/ StopWebsocket

SpecStop ==
    /\ InitWs
    /\ [][NextStop]_vars
    /\ WF_vars(WsConnect)
    /\ WF_vars(WsReceive(Frames))
    /\ WF_vars(WsWake)

\* Two client operations whose _ensure_authenticated finds no token, their
\* runs of async_authenticate interleaved at the awaits.
NextAuth ==
    \/ \E r \in DOMAIN runs : BeginAuthenticate(r, FewAuthEnvs)
    \/ \E r \in DOMAIN runs : StartpageAnswered(r)
    \/ \E r \in DOMAIN runs : LoginAnswered(r)
    \/ \E r \in DOMAIN runs : SessionClosed(r)

SpecAuth == Init /\ [][NextAuth]_vars

\* Several config entries: their setups and unloads in any order, and calls
\* of the service for the entities of those that are set up.
NextEntries ==
    \/ \E entry \in Emails : SetupRegistersService(entry)
    \/ \E entry \in Emails : AsyncUnloadEntry(entry)
    \/ AsyncChangeModeOfEntries({ "home", "away", "pause" }, EntityIds)

SpecEntries == Init /\ [][NextEntries]_vars

\* The device data cache: authentications that succeed, fetches, and time
\* passing in steps of 7 and 8 minutes.
CacheAuthEnvs ==
    { e \in AuthEnvs :
        /\ e.login.xsrf = "x1"
        /\ ~e.login.page.alert
        /\ e.login.page.userlink # NONE
        /\ Len(e.login.page.rows) > 0 }

NextCache ==
    \/ Authenticate(CacheAuthEnvs)
    \/ GetDeviceData({ r \in DeviceResponses : r.xsrf = NoCookie })
    \/ Tick({ 7, 8 })

SpecCache == Init /\ [][NextCache]_vars

\* The config flow
NextFlow == AsyncStepUser(AuthEnvs)

SpecFlow == Init /\ [][NextFlow]_vars

\* The binary sensors: a client that authenticates, the platform's setup, the
\* messages its callback is called with (a last_seen_at is the time of the
\* message, ONLINE_MINUTES before it, or no timestamp), and time passing in
\* steps of 10 minutes.
OperationMessages(operation, datas) ==
    { Message(ABSENT, "dict", operation, d) : d \in datas }

OtherKeys == Data(<< >>, << >>, << >>, ABSENT, TRUE)

SensorMessages ==
    OperationMessages("flow_updated",
        { NullData, EmptyData }
        \cup { Data(<< fm >>, << >>, << >>, ABSENT, TRUE) : fm \in 0..2 })
    \cup OperationMessages("device_updated",
        { NullData, EmptyData,
          Data(<< >>, << 128 >>, << FALSE >>, ABSENT, TRUE) }
        \cup { Data(<< >>, << 128 >>, << TRUE >>, ls, TRUE) :
                 ls \in { "bad" } \cup
                       { ts \in TimeStrings :
                           /\ FromIsoFormat(ts) # << >>
                           /\ FromIsoFormat(ts)[1] \in
                                 { now, now - ONLINE_MINUTES } } })
    \cup OperationMessages("quick_test_updated", { NullData, OtherKeys })
    \cup OperationMessages("tightness_test_updated", { OtherKeys })
    \cup OperationMessages("status_message",
        { NullData, Data(<< >>, << 0 >>, << >>, ABSENT, TRUE) })
    \cup OperationMessages("device_offline", { OtherKeys })
    \cup OperationMessages("reboot", { OtherKeys })
    \cup { Message("ping", "int", ABSENT, EmptyData),
           Message("ping", ABSENT, ABSENT, EmptyData) }

\* The answers to the fetch of the setup: it raises, or gives device data
SetupResponses ==
    { r \in DeviceResponses :
        r.xsrf = NoCookie /\ (r.exc \/ r.body \in DataValues) }

SensorAuthEnvs ==
    { e \in FewAuthEnvs : ~e.start.exc }

NextSensors ==
    \/ Authenticate(SensorAuthEnvs)
    \/ SetupEntry(DomainKeys, SetupResponses)
    \/ HandleWsMessage(SensorMessages)
    \/ Tick({ 10 })

SpecSensors == Init /\ [][NextSensors]_vars

\* The valve sensor: the platform's setup, and device_updated and
\* status_message messages with every port_state up to MaxPortState.
MaxPortState == 255

ValveMessages ==
    UNION { OperationMessages(operation,
                { EmptyData, OtherKeys }
                \cup { Data(<< >>, << p >>, << >>, ABSENT, TRUE) :
                         p \in 0..MaxPortState }) :
            operation \in { "device_updated", "status_message" } }

NextValve ==
    \/ SetupEntry(DomainKeys, SetupResponses)
    \/ HandleWsMessage(ValveMessages)

SpecValve == Init /\ [][NextValve]_vars


\* The service: a client that authenticates, and calls of the service with
\* a mode (None and "": a missing mode) and with no entity_id, an entity id
\* or a list of two.
NextService ==
    \/ Authenticate(CacheAuthEnvs)
    \/ ServiceChangeMode(Modes \cup { NONE, "" },
                         { << >> } \cup { << e >> : e \in EntityIds }
                         \cup { << e1, e2 >> : e1 \in EntityIds,
                                               e2 \in EntityIds })

SpecService == Init /\ [][NextService]_vars

\* The modes of async_change_mode: a client that authenticates, and calls
\* with every mode string.
NextModes ==
    \/ Authenticate(FewAuthEnvs)
    \/ ChangeMode(Modes)

SpecModes == Init /\ [][NextModes]_vars

\* The messages the callbacks of a config entry get: flow_updated with
\* durations of 0 s, 0.5 s, 3 s and 7.9 s, a string that is no number or no
\* duration, device_updated with or without a mode, and device_offline.
EntityMessages ==
    { Message(ABSENT, "dict", "flow_updated", EntityData(sn, dur, << >>)) :
        sn \in { "SN1", "SN2", ABSENT },
        dur \in { << >>, << [num |-> FALSE, tenths |-> 0] >> }
                \cup { << [num |-> TRUE, tenths |-> t] >> :
                         t \in { 0, 5, 30, 79 } } }
    \cup { Message(ABSENT, "dict", "device_updated",
                   EntityData(sn, << >>, mode)) :
             sn \in { "SN1", "SN2" }, mode \in { << >>, << 1 >>, << 2 >> } }
    \cup { Message(ABSENT, "dict", "device_offline",
                   EntityData("SN1", << >>, << >>)) }

\* The setup of a config entry: the login fails or finds one or two
\* devices, each fetch fails or gives device data, the status page has a
\* token or none.
NextSetup ==
    \/ AsyncSetupEntry({ e \in AuthEnvs :
                           \/ e.start.exc
                           \/ /\ e.login.xsrf = "x1"
                              /\ e.login.page.userlink # NONE
                              /\ Len(e.login.page.rows) > 0 },
                       SetupResponses)
    \/ \E platform \in PLATFORMS \ { "binary_sensor" } :
         SetupPlatform(platform, SetupResponses)
    \/ hass.stage = "platforms" /\ SetupEntry({ "device_ids" }, SetupResponses)
    \/ StartWebsocketTask({ r \in PageResponses : r.xsrf = NoCookie })
    \/ CallCallbacks(EntityMessages)

SpecSetup == Init /\ [][NextSetup]_vars


-----------------------------------------------------------------------------
(* Properties of the WebSocket loop, under SpecWs *)

\* C1: when every connection attempt fails, connect_to_websocket makes exactly
\* MAX_RETRIES attempts, each after the first preceded by a sleep, and then
\* gives up and returns; while every attempt has failed it returns in no
\* other way unless stop_websocket cleared the running flag; and once it has
\* given up, no operation that follows makes it attempt a connection, open
\* one, or call a callback again.
GivesUpAfterMaxRetries ==
    /\ []((GaveUp /\ ws_obs.all_failed) =>
            /\ ws_obs.attempts = MAX_RETRIES
            /\ retry_count = MAX_RETRIES
            /\ ws_obs.sleeps = MAX_RETRIES - 1)
    /\ []((ws_obs.all_failed /\ ws_obs.attempts > 1) =>
            ws_obs.before_attempt = "sleep")
    /\ []((pc = "returned" /\ ws_obs.attempts > 0 /\ ws_obs.all_failed) =>
            ~ws_running)
    /\ [][GaveUp => (GaveUp' /\ ws_obs' = ws_obs)]_vars

\* C1, its case: the loop gave up after attempts that all failed, and a
\* client operation followed and succeeded
GaveUpThenReset ==
    /\ GaveUp
    /\ ws_obs.all_failed
    /\ last.op = "reset_alarms"
    /\ last.ret = "True"

\* C2: one call of connect_to_websocket makes at most MAX_RETRIES connection
\* attempts, whatever the server does.
AttemptsWithinCeiling == ws_obs.attempts <= MAX_RETRIES

\* C3: a connection attempt is never made directly after a lost connection:
\* a backoff sleep comes before it.
SleepsBeforeReconnect ==
    ws_obs.event = "attempt" => ws_obs.before_attempt \in {"start", "sleep"}

Abs(x) == IF x < 0 THEN 0 - x ELSE x

\* C4: the retry delay never exceeds MAX_RETRY_DELAY; it is INITIAL_RETRY_DELAY
\* while a connection is open; the time slept differs from it by at most a
\* fifth of it; and after a failed attempt it is
\* min(previous * RETRY_BACKOFF_FACTOR, MAX_RETRY_DELAY), not less than the
\* previous delay, the previous delay being INITIAL_RETRY_DELAY when the
\* attempt had opened a connection.
BackoffBounded ==
    /\ [](retry_delay <= retry_cfg.max)
    /\ [](pc = "receiving" => retry_delay = retry_cfg.initial)
    /\ [](pc = "sleeping" =>
            5 * Abs(actual_delay - retry_delay) <= retry_delay)
    /\ [][(pc = "connecting" /\ pc' = "sleeping") =>
            IF ws_obs'.opened
            THEN retry_delay' =
                   Min(retry_cfg.initial * retry_cfg.factor, retry_cfg.max)
            ELSE /\ retry_delay' =
                      Min(retry_delay * retry_cfg.factor, retry_cfg.max)
                 /\ retry_delay' >= retry_delay]_vars

\* C4, its case: after a connection had been open, failed attempts have
\* brought the delay to its cap, and the sleep is longer than the delay
SleepsAtCap ==
    /\ pc = "sleeping"
    /\ ~ws_obs.all_failed
    /\ ws_obs.sleeps >= 3
    /\ retry_cfg.initial < retry_cfg.max
    /\ retry_delay = retry_cfg.max
    /\ actual_delay > retry_delay

\* The message types the spec lists as dispatched to the callbacks
ListedTypes ==
    { "flow_updated", "device_updated", "quick_test_updated",
      "tightness_test_updated", "alarm_triggered", "ping", "device_offline" }

\* C7: every received frame whose type is flow_updated, device_updated,
\* quick_test_updated, tightness_test_updated, alarm_triggered, ping or
\* device_offline is passed to every registered callback.
ListedFramesReachCallbacks ==
    (ws_obs.frame.json /\ ExtractMessageType(ws_obs.frame) \in ListedTypes) =>
        ws_obs.called = ws_callbacks

\* C14: while the running flag is set, a turn of the inner loop that ends in
\* an error other than ConnectionClosed (a frame that is no JSON, an error of
\* the receive, a callback that raises) leaves the loop receiving on the same
\* connection: no new attempt is made and retry_count and retry_delay keep
\* their values.
ErrorKeepsConnection ==
    [][ ( /\ pc = "receiving"
          /\ ws_running
          /\ ws_obs'.error \in { "parse", "receive", "callback" } ) =>
            /\ pc' = "receiving"
            /\ ws_obs'.attempts = ws_obs.attempts
            /\ retry_count' = retry_count
            /\ retry_delay' = retry_delay ]_vars

\* A frame reached the callbacks on a connection whose turn before it ended
\* in an error
FrameHandledAfterError ==
    /\ pc = "receiving"
    /\ ws_obs.after_error
    /\ ws_obs.error = "none"
    /\ ws_obs.frame.json
    /\ ws_obs.called # << >>

\* C16: once stop_websocket has cleared the running flag, a running
\* connect_to_websocket eventually returns, given that every connection
\* attempt, every receive and every sleep ends (SpecStop).
StopEndsTheLoop ==
    (~ws_running /\ pc \in { "connecting", "receiving", "sleeping" })
        ~> (pc \in { "returned", "gave_up" })

\* The call returned after a frame it handled with the flag cleared
ReturnedAfterStop ==
    /\ ~ws_running
    /\ pc = "returned"
    /\ ws_obs.event = "returned"
    /\ ws_obs.frame.json

\* C29: with the running flag cleared, no step of connect_to_websocket
\* starts a connection attempt; a receive that was in flight ends the call
\* with its step, whatever it read, and no receive is started again, so at
\* most the one frame of that receive reaches the callbacks.
NothingNewAfterStop ==
    [][~ws_running =>
          /\ ws_obs'.attempts = ws_obs.attempts
          /\ pc # "connecting" => pc' # "connecting"
          /\ pc = "receiving" => pc' = "returned"
          /\ pc # "receiving" =>
                /\ pc' # "receiving"
                /\ ws_obs'.called \in { ws_obs.called, << >> }]_vars

\* C29, its case: the flag was cleared during a receive, the frame of that
\* receive was given to the callback and the call returned
LastFrameAfterStop ==
    /\ ~ws_running
    /\ pc = "returned"
    /\ ws_obs.event = "returned"
    /\ ws_obs.attempts >= 1
    /\ ws_obs.called = << "cb1" >>

-----------------------------------------------------------------------------
(* Properties of the client's operations, under Spec *)

\* The operations that need the session
SessionOps ==
    { "get_device_data", "get_websocket_token", "change_mode", "reset_alarms",
      "connect_to_websocket" }

\* The requests of the last operation reuse the token and the cookies held
\* before it, and none of them is a start page or login request
ReusesSession ==
    /\ \A i \in 1..Len(last.reqs) : last.reqs[i].req \notin {"start", "login"}
    /\ ~last.sub =>
         \A i \in 1..Len(last.reqs) :
            /\ last.reqs[i].token = last.before.token
            /\ last.reqs[i].cookies = last.before.jar

\* C5 as stated: an operation that needs the session, but for
\* async_get_device_data answered from the cache, runs async_authenticate if
\* and only if no XSRF token is held when it is called, and with a token held
\* it reuses the token and cookies and sends no login request.
AuthenticatesIffNoToken ==
    (last.op \in SessionOps /\ ~last.hit) =>
        /\ (last.auths > 0) <=> (last.before.token = NONE)
        /\ last.before.token # NONE => ReusesSession

\* C5 as amended: an operation that needs the session runs async_authenticate
\* if and only if no XSRF token is held and it gets as far as its session
\* check, once; with a token held it reuses the token and cookies and sends
\* no start page or login request.
AuthenticatesIffNoTokenAtCheck ==
    last.op \in SessionOps =>
        /\ last.auths \in {0, 1}
        /\ (last.auths = 1) <=> (last.reached /\ last.before.token = NONE)
        /\ last.before.token # NONE => ReusesSession

\* C5, its case: async_reset_alarms called with a token held sent its one
\* request and succeeded
ResetWithTokenHeld ==
    /\ last.op = "reset_alarms"
    /\ last.before.token # NONE
    /\ last.reached
    /\ Len(last.reqs) = 1
    /\ last.ret = "True"

\* C9: whenever async_authenticate returns False the error code is set, and
\* it names the cause when the cause is one of the four the codes name.
ErrorCodeNamesCause ==
    (last.op = "authenticate" /\ last.ret = "False") =>
        /\ error_code \in ErrorCodes
        /\ last.input.cause \in ErrorCodes => error_code = last.input.cause

\* C10: whenever the start page gives a CSRF token and the login is answered
\* with status 200, an XSRF-TOKEN cookie and a page without an alert that
\* holds a device row, async_authenticate returns True, device_ids holds one
\* id per row in page order, and the XSRF token is stored.
LoginWithDevicesSucceeds ==
    ( /\ last.op = "authenticate"
      /\ last.input.csrf
      /\ last.input.status = 200
      /\ Len(last.input.rows) > 0
      /\ last.input.cause \notin
            {ERROR_XSRF_TOKEN_MISSING, ERROR_INVALID_CREDENTIALS} ) =>
        /\ last.ret = "True"
        /\ device_ids = [i \in 1..Len(last.input.rows) |->
                           StripDevicePrefix(last.input.rows[i])]
        /\ xsrf_token # NONE

\* C11: whenever the start page gives a CSRF token and the login is answered
\* with status 200, an XSRF-TOKEN cookie and a page without an alert that
\* holds no device row, async_authenticate returns False and the error code
\* is no_devices_found.
NoRowsGivesNoDevicesFound ==
    ( /\ last.op = "authenticate"
      /\ last.input.csrf
      /\ last.input.status = 200
      /\ Len(last.input.rows) = 0
      /\ last.input.cause \notin
            {ERROR_XSRF_TOKEN_MISSING, ERROR_INVALID_CREDENTIALS} ) =>
        /\ last.ret = "False"
        /\ error_code = ERROR_NO_DEVICES_FOUND

\* C30: the client holds an XSRF token only after an async_authenticate
\* that returned True, and an async_authenticate that returns False on a
\* client without a token leaves it without one. device_ids is assigned
\* only where _async_login returns True (lines 273-275), with at least one
\* id, so the client holds device ids exactly when some async_authenticate
\* has returned True; _ensure_authenticated returns True without
\* authenticating exactly when a token is held (line 539).
TokenOnlyAfterLogin ==
    /\ xsrf_token # NONE => Len(device_ids) > 0
    /\ ( /\ last.op = "authenticate"
         /\ last.ret = "False"
         /\ last.before.token = NONE ) => xsrf_token = NONE

\* The client after one device request of each kind answered with r
AfterAnswer(r) ==
    { GetDeviceDataOne([Client EXCEPT !.cache = NewClient.cache],
                       FirstDeviceId(Client), now,
                       Env(Unasked(StartResponses), Unasked(LoginResponses),
                           r)).c,
      GetWebsocketToken(Client, Env(Unasked(StartResponses),
                                    Unasked(LoginResponses), r)).c,
      MakeRequest(Client, "change_mode", FirstDeviceId(Client),
                  Env(Unasked(StartResponses), Unasked(LoginResponses),
                      r)).c }

\* C31: a token that is held stays held; while it is held, whatever the
\* server answers to a device request, a response without an XSRF cookie
\* keeps the token and a response that is not a 200 (or no response) keeps
\* token and cookies; and an operation that starts with a token sends no
\* start page or login request.
TokenIsNeverCleared ==
    /\ [][xsrf_token # NONE => xsrf_token' # NONE]_vars
    /\ []((xsrf_token # NONE /\ Len(device_ids) > 0) =>
            \A r \in DeviceResponses \cup PageResponses \cup PostResponses :
              \A c \in AfterAnswer(r) :
                /\ GetXsrfToken(r.xsrf) = NONE => c.xsrf_token = xsrf_token
                /\ (r.exc \/ r.status # 200) =>
                      (c.xsrf_token = xsrf_token /\ c.cookies = cookies))
    /\ []((last.op \in SessionOps /\ last.before.token # NONE) =>
            /\ last.auths = 0
            /\ \A i \in 1..Len(last.reqs) :
                  last.reqs[i].req \notin { "start", "login" })

\* C31, its case: an operation that started with a token sent its request,
\* failed, and the token is the one held before
RejectedWithTokenKept ==
    /\ last.op = "change_mode"
    /\ last.before.token # NONE
    /\ last.ret = "False"
    /\ Len(last.reqs) > 0
    /\ last.auths = 0
    /\ xsrf_token = last.before.token

-----------------------------------------------------------------------------
(* Several config entries, under SpecEntries *)

\* C33: a call of leakomatic.change_mode for an entity goes through the
\* client of the config entry that owns the entity's device.
ServiceUsesOwnersClient ==
    services.call # << >> =>
        services.call[1].client = services.call[1].owner

-----------------------------------------------------------------------------
(* Overlapping authentications, under SpecAuth *)

\* What a run returns when it runs alone and the server answers env
Alone(env) ==
    IF AsyncAuthenticate(NewClient, env.start, env.login).ret
    THEN "True" ELSE "False"

\* C32: of two overlapping runs of async_authenticate, neither closes the
\* session a request of the other is in flight on, neither replaces the
\* session the other has created and has still to send its login on, and
\* each returns what it would return if it ran alone.
RunsDoNotInterfere ==
    \A r \in DOMAIN runs :
      /\ runs[r].pc \in { "get", "post" } => ~runs[runs[r].uses].closed
      /\ runs[r].pc = "get" => session = r
      /\ runs[r].pc = "post" => runs[r].uses = r
      /\ runs[r].pc \in { "closing", "done" } =>
            runs[r].ret = Alone(runs[r].env[1])

-----------------------------------------------------------------------------
(* The modes and the service, under SpecModes and SpecService *)

\* C18 as stated: from_string maps home to 0, away to 1 and pause to 2 and
\* raises ValueError for every other string, and async_change_mode with any
\* other mode returns False without authenticating or sending a request.
OnlyListedModesAccepted ==
    last.op = "change_mode" =>
        /\ last.mode = "home" => FromString(last.mode) = "0"
        /\ last.mode = "away" => FromString(last.mode) = "1"
        /\ last.mode = "pause" => FromString(last.mode) = "2"
        /\ last.mode \notin { "home", "away", "pause" } =>
              /\ FromString(last.mode) = "ValueError"
              /\ last.ret = "False"
              /\ last.auths = 0
              /\ last.reqs = << >>

\* C18: from_string maps home to 0, away to 1 and pause to 2 in any letter
\* case (Away is away) and raises ValueError for every other string, and
\* async_change_mode with a mode from_string rejects returns False without
\* authenticating or sending a request.
ModesAcceptedInAnyCase ==
    last.op = "change_mode" =>
        /\ last.mode = "home" => FromString(last.mode) = "0"
        /\ last.mode \in { "away", "Away" } => FromString(last.mode) = "1"
        /\ last.mode = "pause" => FromString(last.mode) = "2"
        /\ last.mode \notin { "home", "away", "Away", "pause" } =>
              /\ FromString(last.mode) = "ValueError"
              /\ last.ret = "False"
              /\ last.auths = 0
              /\ last.reqs = << >>

ModeChangedWithCapital ==
    /\ last.op = "change_mode"
    /\ last.mode = "Away"
    /\ Len(last.reqs) = 1
    /\ last.ret = "True"

\* What C17 says of the last call of the service when the modes it accepts
\* are `accepted`: with such a mode and an entity, one call of the client and
\* one change-mode request per entity that resolves; else no request and no
\* call of the client.
ServiceSent(accepted) ==
    service.result # "none" =>
        IF service.mode \in accepted /\ service.entity_ids # << >>
        THEN /\ Len(service.calls) =
                  Cardinality({ i \in DOMAIN service.entity_ids :
                      LeakomaticDeviceId(service.entity_ids[i]) # NONE })
             /\ \A i \in DOMAIN service.entity_ids :
                  LeakomaticDeviceId(service.entity_ids[i]) # NONE =>
                    \E j \in DOMAIN service.calls :
                      service.calls[j] =
                        LeakomaticDeviceId(service.entity_ids[i])
             /\ Len(service.reqs) = Len(service.calls)
             /\ \A j \in DOMAIN service.calls :
                  /\ service.reqs[j].req = "change_mode"
                  /\ service.reqs[j].dev = service.calls[j]
        ELSE service.calls = << >> /\ service.reqs = << >>

\* A call of the service without a mode of `accepted` or without an entity
\* changes nothing of the client
ServiceRejectedKeepsState(accepted) ==
    ( /\ service' # service
      /\ ~(service'.mode \in accepted /\ service'.entity_ids # << >>) ) =>
        UNCHANGED http_vars

-----------------------------------------------------------------------------
(* The cache of device data, under SpecCache *)

\* C6: a call of async_get_device_data about device x made less than 15
\* minutes after the last successful fetch of x returns the data of that
\* fetch and sends no request (and does not authenticate); a call made 15
\* minutes or more after it sends a request for x.
CacheAnswersWithin15Minutes ==
    last.op = "get_device_data" =>
        \A x \in DeviceIds :
            LET about ==
                    IF last.sub
                    THEN \E i \in 1..Len(device_ids) : device_ids[i] = x
                    ELSE x = Target(Client, last.dev)
                asked ==
                    \E i \in 1..Len(last.reqs) :
                        last.reqs[i].req = "data" /\ last.reqs[i].dev = x
                result == IF last.sub THEN last.rets[x] ELSE last.ret
            IN  (about /\ last.prior[x].data # NONE) =>
                    IF last.t - last.prior[x].time < 15
                    THEN /\ result = last.prior[x].data
                         /\ ~asked
                         /\ last.auths = 0
                         /\ ~last.sub => last.reqs = << >>
                    ELSE asked

\* C6, its case: a call 14 minutes after the fetch of a device was answered
\* from the cache
CacheHitAfter14Minutes ==
    /\ last.op = "get_device_data"
    /\ last.hit
    /\ last.dev \in DeviceIds
    /\ last.prior[last.dev].data # NONE
    /\ last.t - last.prior[last.dev].time = 14

-----------------------------------------------------------------------------
(* The binary sensors, under SpecSensors and SpecValve *)

\* C12: after the binary sensors' registry has handled a flow_updated
\* message (its handler did not raise), the flow indicator reports on if and
\* only if the flow_mode of the message's data is 1.
FlowOnIffFlowModeIs1 ==
    (handled.type = "flow_updated" /\ ~handled.raised) =>
        (FlowIsOn(binary_sensors) = "True"
            <=> MessageData(handled.msg).flow_mode = << 1 >>)

FlowTurnedOn ==
    /\ handled.type = "flow_updated"
    /\ ~handled.raised
    /\ MessageData(handled.msg).flow_mode = << 1 >>
    /\ FlowIsOn(binary_sensors) = "True"

\* C13: while the valve sensor holds a port_state in 0..255 it reports
\* closed (is_on False) if and only if bit 7 of it is set, that is if it is
\* 128 or more, and open (is_on True) otherwise; while it holds no
\* port_state it reports unknown.
ValveClosedIffBit7 ==
    /\ ( /\ ~Falsy(binary_sensors.valve)
         /\ binary_sensors.valve.port_state # << >>
         /\ binary_sensors.valve.port_state[1] \in 0..255 ) =>
           /\ ValveIsOn(binary_sensors) = "False"
                 <=> binary_sensors.valve.port_state[1] >= 128
           /\ ValveIsOn(binary_sensors) = "True"
                 <=> binary_sensors.valve.port_state[1] < 128
    /\ (Falsy(binary_sensors.valve)
           \/ binary_sensors.valve.port_state = << >>) =>
           ValveIsOn(binary_sensors) = NONE

ValveClosedAt200 ==
    /\ handled.type = "device_updated"
    /\ binary_sensors.valve.port_state = << 200 >>
    /\ ValveIsOn(binary_sensors) = "False"

\* C20: right after the registry has handled a flow_updated, device_updated,
\* quick_test_updated, tightness_test_updated or status_message message
\* (its handler did not raise), the online status sensor reports on.
OnlineAfterDeviceMessage ==
    ( /\ handled.type \in { "flow_updated", "device_updated",
                            "quick_test_updated", "tightness_test_updated",
                            "status_message" }
      /\ ~handled.raised ) =>
        handled.online = "True"

\* C15: when the fetch of the device data fails the sensors created from it
\* report unknown, and when handling a message raises, the sensors the
\* handler of that message updates report unknown afterwards.
FailureGivesUnknown ==
    /\ (handled.fetch = "failed" /\ handled.type = "none") =>
           /\ FlowIsOn(binary_sensors) = NONE
           /\ OnlineIsOn(binary_sensors, now) = NONE
           /\ ValveIsOn(binary_sensors) = NONE
    /\ handled.raised =>
           /\ handled.type = "flow_updated" =>
                  FlowIsOn(binary_sensors) = NONE
           /\ handled.type \in { "device_updated", "status_message" } =>
                  ValveIsOn(binary_sensors) = NONE
           /\ handled.online = NONE

\* C21: right after the registry has handled a device_offline message the
\* online status sensor reports off, whatever last_seen it holds.
OfflineMessageTurnsOff ==
    handled.type = "device_offline" => handled.online = "False"

\* C22: from its creation until the first flow_updated message the flow
\* indicator reports unknown, whatever the device data of the setup holds,
\* and a message of any other type leaves what it holds unchanged.
FlowUnknownUntilFlowUpdated ==
    /\ []((binary_sensors.setup = "created" /\ handled.type = "none") =>
             FlowIsOn(binary_sensors) = NONE)
    /\ [][(binary_sensors.setup = "created"
              /\ handled'.type # "flow_updated") =>
             binary_sensors'.flow = binary_sensors.flow]_vars

-----------------------------------------------------------------------------
(* The loop over the devices, under Spec *)

\* How many requests of one kind for device d are among reqs
CountReqs(reqs, kind, d) ==
    Cardinality({ i \in 1..Len(reqs) :
                    reqs[i].req = kind /\ reqs[i].dev = d })

\* The last call was async_change_mode with a mode from_string accepts, or
\* async_reset_alarms, without a device id
CalledForAllDevices ==
    /\ last.op \in { "change_mode", "reset_alarms" }
    /\ last.dev = NONE
    /\ last.op = "change_mode" => FromString(last.mode) # "ValueError"

\* C19: async_change_mode and async_reset_alarms called without a device id
\* on a client that knows two or more devices send exactly one request for
\* every known device and no other request, also after an earlier device's
\* request failed, and return True if and only if every one of those
\* requests succeeded; with no known device they return False without
\* sending a request.
LoopSendsForEveryDevice ==
    CalledForAllDevices =>
        /\ last.before.devices >= 2 =>
               /\ last.sub
               /\ Len(last.reqs) = last.before.devices
               /\ \A d \in DeviceIds :
                      /\ CountReqs(last.reqs, last.op, d) = 1
                      /\ last.rets[d] \in { "True", "False" }
               /\ last.ret = "True" <=>
                      \A d \in DeviceIds : last.rets[d] = "True"
        /\ last.before.devices = 0 =>
               /\ last.ret = "False"
               /\ last.reqs = << >>

\* C19, its case: the request for the first of two devices failed, the one
\* for the second was sent and succeeded, and the call returned False
LaterDeviceAskedAfterFailure ==
    /\ CalledForAllDevices
    /\ last.before.devices = 2
    /\ last.rets["2"] = "False"
    /\ last.rets["1"] = "True"
    /\ CountReqs(last.reqs, last.op, "1") = 1
    /\ last.reqs[2].dev = "1"
    /\ last.ret = "False"

\* The call of async_get_device_data that last describes got the data of
\* device x: from the cache, which held data fetched less than 15 minutes
\* before, or from a request for x whose answer the cache now holds
FetchSucceeded(x) ==
    \/ /\ last.prior[x].data # NONE
       /\ last.t - last.prior[x].time < 15
    \/ /\ CountReqs(last.reqs, "data", x) = 1
       /\ device_data_cache[x] # NONE
       /\ device_data_cache_time[x] = last.t

-----------------------------------------------------------------------------
(* The setup of a config entry, under SpecSetup *)

\* C23: once the binary sensor platform has been set up for an entry for
\* which the integration's setup stored device ids, device entries and
\* device infos, the flow indicator, online status and valve sensors exist
\* and the platform's callback is in the entry's ws_callbacks.
BinarySensorsCreated ==
    ("binary_sensor" \in hass.platforms /\ hass.device_infos # {}) =>
        /\ binary_sensors.setup = "created"
        /\ \E i \in 1..Len(hass.ws_callbacks) :
              hass.ws_callbacks[i] = "binary_sensor"

\* C25: a message that carries the identifier of a device that has
\* entities leaves the entities of every other device as they were.
MessageChangesOnlyItsDevice ==
    [][(hass.task /\ hass'.msg # << >>) =>
          \A a, d \in DeviceIds :
              ( /\ entities[a].serial = hass'.msg[1].data.device_id
                /\ entities[d].serial # hass'.msg[1].data.device_id ) =>
                  entities'[d] = entities[d]]_vars

\* The step is the handling of a flow_updated message that carries the
\* serial number of device d, whose flow duration sensor exists
FlowUpdateFor(d) ==
    /\ hass.task
    /\ hass'.msg # << >>
    /\ RegistryMessageType(hass'.msg[1]) = "flow_updated"
    /\ entities[d].sensor
    /\ entities[d].serial = hass'.msg[1].data.device_id

\* C27 as stated: the flow duration sensor reports no value when created
\* from data with a duration of 0; an update with a duration that is a
\* number above 0 makes it report that duration, and an update whose
\* duration is 0, missing or no number leaves the value it reports.
ReportsLastPositiveDuration ==
    /\ [](\A d \in DeviceIds :
             (entities[d].sensor /\ hass.msg = << >>) =>
                 entities[d].last_known = << >>)
    /\ [][\A d \in DeviceIds :
             FlowUpdateFor(d) =>
                 IF /\ hass'.msg[1].data.duration # << >>
                    /\ hass'.msg[1].data.duration[1].num
                    /\ hass'.msg[1].data.duration[1].tenths > 0
                 THEN /\ entities'[d].last_known # << >>
                      /\ entities'[d].last_known[1] * 10
                            = hass'.msg[1].data.duration[1].tenths
                 ELSE entities'[d].last_known = entities[d].last_known]_vars

\* C27: the flow duration sensor reports no value when created from data
\* with a duration of 0; an update with a duration that is a number of one
\* second or more makes it report the whole seconds of that duration, and
\* an update whose duration is below one second, missing or no number
\* leaves the value it reports.
ReportsLastWholeSeconds ==
    /\ [](\A d \in DeviceIds :
             (entities[d].sensor /\ hass.msg = << >>) =>
                 entities[d].last_known = << >>)
    /\ [][\A d \in DeviceIds :
             FlowUpdateFor(d) =>
                 IF /\ hass'.msg[1].data.duration # << >>
                    /\ hass'.msg[1].data.duration[1].num
                    /\ hass'.msg[1].data.duration[1].tenths >= 10
                 THEN entities'[d].last_known =
                          << hass'.msg[1].data.duration[1].tenths \div 10 >>
                 ELSE entities'[d].last_known = entities[d].last_known]_vars

\* C27, its case: the sensor reported 3 seconds, a flow_updated message
\* with a duration of 0 for its device was handled and it still reports 3
KeptDurationAfterZero ==
    /\ hass.msg # << >>
    /\ RegistryMessageType(hass.msg[1]) = "flow_updated"
    /\ hass.msg[1].data.device_id = "SN1"
    /\ hass.msg[1].data.duration = << [num |-> TRUE, tenths |-> 0] >>
    /\ entities["1"].sensor
    /\ entities["1"].last_known = << 3 >>

\* A platform's callback is in the entry's ws_callbacks
Registered(platform) ==
    \E i \in 1..Len(hass.ws_callbacks) : hass.ws_callbacks[i] = platform

-----------------------------------------------------------------------------
(* The config flow, under SpecFlow *)

\* C8: whenever authentication fails in the user step, the form is shown
\* again with errors["base"] one of the four error codes, and no config entry
\* is created.
FlowShowsErrorCode ==
    /\ [](flow.auth = "False" =>
            /\ flow.type = "form"
            /\ flow.errors \in ErrorCodes
            /\ flow.entry = NONE)
    /\ [][flow'.auth = "False" => flow'.entries = flow.entries]_vars

\* C8, its case: with an entry configured, a step whose authentication
\* failed without an error code showed the form with invalid_credentials
FlowFellBackToInvalidCredentials ==
    /\ flow.auth = "False"
    /\ flow.client_error = NONE
    /\ flow.errors = ERROR_INVALID_CREDENTIALS
    /\ \E e \in Emails : flow.entries[e] # NONE

====
